---- MODULE Spec2Model ----
(***************************************************************************)
(* Verification flow of the KYC application: the zustand store             *)
(* (verificationStore.ts), the screens chosen by App from currentStep,     *)
(* the selfie and ID capture handlers, and the blink-detection loop of     *)
(* LivenessBlink with the face comparison it gates (compareFaces).         *)
(*                                                                         *)
(* Execution is single-threaded and cooperative.  One TLA+ step is one     *)
(* synchronous run of JavaScript between two suspension points: a click    *)
(* handler up to its first await, the continuation of an await, an         *)
(* animation-frame callback, or the React commit that follows a store      *)
(* change (Render).  A store change made outside a React event handler is  *)
(* flushed by React in a microtask, before any timer, animation frame or   *)
(* capability result is delivered; hence every other step waits for a      *)
(* pending Render.                                                         *)
(*                                                                         *)
(* Units: times are milliseconds; distances, thresholds and eye aspect     *)
(* ratios are in hundredths (0.55 is 55).                                  *)
(***************************************************************************)
EXTENDS Integers, FiniteSets, Sequences, TLC

\* ------------------------------------------------------------------------
\* Bounds of the model
\* ------------------------------------------------------------------------
Epoch == 1000       \* wall-clock reading when the session starts
MaxTime == 2210     \* last wall-clock reading at which a frame is delivered
MaxSelfies == 2     \* selfie captures that reach face extraction
MaxPhotos == 1      \* ID-front captures that reach face extraction
MaxScans == 2       \* ID-back captures that reach the OCR scan

\* Milliseconds that may pass between two animation frames.
TimeSteps == {200, 201}

\* ------------------------------------------------------------------------
\* Program constants (config/constants.ts, livenessHelper.ts)
\* ------------------------------------------------------------------------
FACE_MATCH_THRESHOLD == 55
REQUIRED_BLINKS == 2
BLINK_DEBOUNCE_MS == 400
EAR_THRESHOLD == 20
MIN_LANDMARKS == 468

Steps == {"start", "identity-front", "identity-back", "liveness-front", "liveness-blink"}

\* ------------------------------------------------------------------------
\* Images and face descriptors
\* ------------------------------------------------------------------------
\* The descriptor-extraction capability maps an image to a descriptor or to
\* "no face".  An image carries the index of the descriptor the capability
\* will find in it (0: no face).  Descriptors are points of the plane chosen
\* so that every pairwise Euclidean distance is a whole number of hundredths:
\* 40, 55 and 60 from the first one, 15, 20 and 5 among the others.
Descriptors == << <<0, 0>>, <<24, 32>>, <<33, 44>>, <<36, 48>> >>
NoFace == 0
PortraitFaces == {NoFace, 1}
SelfieFaces == {NoFace, 1, 2, 3, 4}

NullImg == [id |-> 0, face |-> NoFace]
NullOCR == [present |-> FALSE, name |-> "", surname |-> "", tcNo |-> ""]

\* Values an OCR field can take: undefined/empty or some text.
FieldValues == {"", "X"}

Sq(x) == x * x

\* faceapi.euclideanDistance on two descriptors.
euclideanDistance(d1, d2) ==
    LET s == Sq(d1[1] - d2[1]) + Sq(d1[2] - d2[2])
    IN  CHOOSE r \in 0..s : Sq(r) <= s /\ Sq(r + 1) > s

\* the decision rule of compareFaces (mutated form: not strict)
isMatchLax(distance, threshold) == distance <= threshold

\* compareFaces, line 176: isMatch = distance < threshold
isMatchRule(distance, threshold) == distance < threshold

\* loadModels: nothing to do once loaded; otherwise the local models, then
\* the CDN; it throws when both sources fail.
LoadOutcomes == {"local", "cdn", "fail"}
loadModelsThrows(loaded, outcome) == ~loaded /\ outcome = "fail"
loadModelsLoaded(loaded, outcome) == loaded \/ outcome # "fail"

\* (mutated form of compareFaces: an image without a face is compared as a
\* maximally distant one instead of throwing)
compareFacesNoThrow(image1, image2, threshold, loaded, loadOutcome, imagesLoad) ==
    IF loadModelsThrows(loaded, loadOutcome) THEN
        [kind |-> "throw", why |-> "models", isMatch |-> FALSE, distance |-> 0]
    ELSE IF ~imagesLoad THEN
        [kind |-> "throw", why |-> "image", isMatch |-> FALSE, distance |-> 0]
    ELSE
        LET distance == IF image1.face = NoFace \/ image2.face = NoFace THEN 100
                        ELSE euclideanDistance(Descriptors[image1.face],
                                               Descriptors[image2.face])
        IN  [kind |-> "ok", why |-> "", isMatch |-> isMatchRule(distance, threshold),
             distance |-> distance]

\* compareFaces(image1, image2, threshold): the result, or a throw when the
\* models do not load, an image does not load, or a face is not found in the
\* ID portrait (checked first) or in the selfie.
compareFaces(image1, image2, threshold, loaded, loadOutcome, imagesLoad) ==
    IF loadModelsThrows(loaded, loadOutcome) THEN
        [kind |-> "throw", why |-> "models", isMatch |-> FALSE, distance |-> 0]
    ELSE IF ~imagesLoad THEN
        [kind |-> "throw", why |-> "image", isMatch |-> FALSE, distance |-> 0]
    ELSE IF image1.face = NoFace THEN
        [kind |-> "throw", why |-> "noface-id", isMatch |-> FALSE, distance |-> 0]
    ELSE IF image2.face = NoFace THEN
        [kind |-> "throw", why |-> "noface-selfie", isMatch |-> FALSE, distance |-> 0]
    ELSE
        LET distance == euclideanDistance(Descriptors[image1.face], Descriptors[image2.face])
        IN  [kind |-> "ok", why |-> "", isMatch |-> isMatchRule(distance, threshold),
             distance |-> distance]

\* ------------------------------------------------------------------------
\* Video frames and the landmark-detection capability
\* ------------------------------------------------------------------------
\* A frame as the landmarker sees it: the call may fail, may find no face, or
\* finds one face with a number of landmark points and an average eye aspect
\* ratio.
Frames == [fails : BOOLEAN, faces : {0, 1}, points : {MIN_LANDMARKS - 1, MIN_LANDMARKS},
           ear : {EAR_THRESHOLD - 1, EAR_THRESHOLD, EAR_THRESHOLD + 1}]

\* detectEyeBlink: too few landmarks is "not closed"; otherwise closed iff the
\* average EAR is strictly below the threshold.
detectEyeBlink(points, ear, threshold) ==
    IF points < MIN_LANDMARKS THEN FALSE ELSE ear < threshold

\* detectBlinkInFrame: a failure of the landmarker is reported as "no face".
detectBlinkInFrame(frame) ==
    IF frame.fails THEN [faceDetected |-> FALSE, blinkDetected |-> FALSE]
    ELSE IF frame.faces = 0 THEN [faceDetected |-> FALSE, blinkDetected |-> FALSE]
    ELSE [faceDetected |-> TRUE,
          blinkDetected |-> detectEyeBlink(frame.points, frame.ear, EAR_THRESHOLD)]

NoFrame == [faceDetected |-> FALSE, blinkDetected |-> FALSE]

VideoStates == {"missing", "notready", "ready"}

\* ------------------------------------------------------------------------
\* State
\* ------------------------------------------------------------------------
VARIABLES
    \* verificationStore
    currentStep, identityPhoto, ocrResults, croppedPortrait,
    isProcessingGovernmentID, isGovernmentIDComplete,
    livenessSelfie, isProcessingLiveness, isLivenessComplete,
    \* what is on screen
    screen,             \* the step whose component is mounted
    lastMessage,        \* the last antd message shown
    frontFaceDetected,  \* LivenessFrontPhoto: isFaceDetected
    isFaceDetected,     \* LivenessBlink: isFaceDetected
    blinkCount,         \* LivenessBlink: blinkCount (useState)
    isReady,            \* useOCR: isReady
    \* LivenessBlink refs
    animationFrameRef, wasBlinkingRef, lastBlinkTimeRef, blinkCountRef, isComparingRef,
    \* runtime
    rafQueue,           \* animation-frame callbacks requested and not yet run
    tasks,              \* suspended async calls: [pc, env]
    effSeq,             \* number of effect closures created so far
    liveEff,            \* the effect closure whose isMounted is true (NoEnv: none)
    inst,               \* number of LivenessBlink instances mounted so far
    now,                \* Date.now()
    modelsLoaded,       \* faceComparisonHelper: modelsLoaded
    selfieSeq, photoSeq, scanSeq,
    \* history
    cmpLog,             \* results returned by compareFaces
    sessCompares,       \* compareFaces calls of the current blink session
    sessReached,        \* the current session counted its REQUIRED_BLINKS-th blink
    sessReset,          \* blinkCountRef was reset after the session started
    genuineCount,       \* closed-to-open transitions among the face frames of the session
    lastFaceClosed,     \* eyes closed on the last frame of the session that had a face
    spacedOK,           \* every such transition came more than the debounce after the last count
    prevClosed,         \* eyes closed on the previous processed frame
    lastFrame,          \* what detectBlinkInFrame returned for the last processed frame
    sessFrames,         \* frames processed in the current session
    staleWrite,         \* a cancelled loop wrote blinkCountRef, wasBlinkingRef or lastBlinkTimeRef
    failedSelfies,      \* ids of the selfies whose comparison did not match or failed
    \* a library function applied on its own
    call,               \* the function and its arguments
    ret,                \* what it returned (Pending: not applied yet)
    \* useOCR on its own
    workerRef,          \* workerRef.current (NoWorker: null)
    workers,            \* the Tesseract workers created so far and their state
    stages,             \* the stages the current scanImage call has gone through
    lastScan            \* what the last scanImage call read and returned

storeVars == <<currentStep, identityPhoto, ocrResults, croppedPortrait,
               isProcessingGovernmentID, isGovernmentIDComplete,
               livenessSelfie, isProcessingLiveness, isLivenessComplete>>
idVars == <<identityPhoto, ocrResults, croppedPortrait,
            isProcessingGovernmentID, isGovernmentIDComplete, isReady, photoSeq, scanSeq>>
refVars == <<animationFrameRef, wasBlinkingRef, lastBlinkTimeRef, blinkCountRef, isComparingRef>>
loopVars == <<rafQueue, effSeq, liveEff, inst>>
sessVars == <<sessCompares, sessReached, sessReset, genuineCount, lastFaceClosed,
              spacedOK, prevClosed, lastFrame, sessFrames>>
histVars == <<cmpLog, staleWrite, failedSelfies>>
vars == <<currentStep, identityPhoto, ocrResults, croppedPortrait,
          isProcessingGovernmentID, isGovernmentIDComplete,
          livenessSelfie, isProcessingLiveness, isLivenessComplete,
          screen, lastMessage, frontFaceDetected, isFaceDetected, blinkCount, isReady,
          animationFrameRef, wasBlinkingRef, lastBlinkTimeRef, blinkCountRef, isComparingRef,
          rafQueue, tasks, effSeq, liveEff, inst, now, modelsLoaded,
          selfieSeq, photoSeq, scanSeq,
          cmpLog, sessCompares, sessReached, sessReset, genuineCount,
          lastFaceClosed, spacedOK, prevClosed, lastFrame, sessFrames, staleWrite, failedSelfies,
          call, ret, workerRef, workers, stages, lastScan>>
ocrVars == <<workerRef, workers, stages, lastScan>>
\* what the session flow leaves alone
helperVars == <<call, ret, ocrVars>>

NoWorker == 0
NoScan == [kind |-> "none", text |-> <<>>,
           data |-> [name |-> <<"undefined">>, surname |-> <<"undefined">>,
                     tcNo |-> <<"undefined">>, rawText |-> <<>>]]
\* the hook before its effect has run: no worker, no scan
InitialOCR ==
    /\ workerRef = NoWorker
    /\ workers = <<>>
    /\ stages = <<>>
    /\ lastScan = NoScan

NoCall == [fn |-> "none"]
Pending == [kind |-> "pending"]

NoEnv == [id |-> 0, inst |-> 0, proc |-> FALSE, portrait |-> NullImg, selfie |-> NullImg]

\* initialState of the store, and nothing mounted but the start screen
InitialSession ==
    /\ currentStep = "start"
    /\ identityPhoto = 0
    /\ ocrResults = NullOCR
    /\ croppedPortrait = NullImg
    /\ isProcessingGovernmentID = FALSE
    /\ isGovernmentIDComplete = FALSE
    /\ livenessSelfie = NullImg
    /\ isProcessingLiveness = FALSE
    /\ isLivenessComplete = FALSE
    /\ screen = "start"
    /\ lastMessage = ""
    /\ frontFaceDetected = FALSE
    /\ isFaceDetected = FALSE
    /\ blinkCount = 0
    /\ isReady = FALSE
    /\ animationFrameRef = 0
    /\ wasBlinkingRef = FALSE
    /\ lastBlinkTimeRef = 0
    /\ blinkCountRef = 0
    /\ isComparingRef = FALSE
    /\ rafQueue = {}
    /\ tasks = {}
    /\ effSeq = 0
    /\ liveEff = NoEnv
    /\ inst = 0
    /\ now = Epoch
    /\ modelsLoaded = FALSE
    /\ selfieSeq = 0
    /\ photoSeq = 0
    /\ scanSeq = 0
    /\ cmpLog = {}
    /\ sessCompares = 0
    /\ sessReached = FALSE
    /\ sessReset = FALSE
    /\ genuineCount = 0
    /\ lastFaceClosed = FALSE
    /\ spacedOK = TRUE
    /\ prevClosed = FALSE
    /\ lastFrame = NoFrame
    /\ sessFrames = 0
    /\ staleWrite = FALSE
    /\ failedSelfies = {}

Init ==
    /\ InitialSession
    /\ InitialOCR
    /\ call = NoCall
    /\ ret = Pending

\* ------------------------------------------------------------------------
\* Store actions (verificationStore.ts)
\* ------------------------------------------------------------------------
setCurrentStep(step) == currentStep' = step
setIdentityPhoto(photo) == identityPhoto' = photo
setOCRResults(results) == ocrResults' = results
setCroppedPortrait(portrait) == croppedPortrait' = portrait
\* (mutated form: the flag is raised and never lowered)
setProcessingGovernmentIDSticky(processing) ==
    isProcessingGovernmentID' = (isProcessingGovernmentID \/ processing)

setProcessingGovernmentID(processing) == isProcessingGovernmentID' = processing
completeGovernmentID ==
    /\ isGovernmentIDComplete' = TRUE
    /\ isProcessingGovernmentID' = FALSE
setLivenessSelfie(selfie) == livenessSelfie' = selfie
setProcessingLiveness(processing) == isProcessingLiveness' = processing
completeLiveness ==
    /\ isLivenessComplete' = TRUE
    /\ isProcessingLiveness' = FALSE

\* ------------------------------------------------------------------------
\* Scheduling
\* ------------------------------------------------------------------------
\* isMounted of the effect closure env
IsMounted(env) == env.id # 0 /\ env.id = liveEff.id

\* The dependencies of the LivenessBlink effect that can change.
DepsChanged ==
    \/ liveEff.proc # isProcessingLiveness
    \/ liveEff.portrait # croppedPortrait
    \/ liveEff.selfie # livenessSelfie

\* A store change has not been rendered yet.
RenderPending ==
    \/ screen # currentStep
    \/ screen = "liveness-blink" /\ DepsChanged

\* A synchronous run is in the middle of LivenessBlink's comparison block.
InGate == \E t \in tasks : t.pc = "gate"

\* A new macrotask may run.
Quiet == ~RenderPending /\ ~InGate

\* requestAnimationFrame returns a handle that no pending callback has.  A
\* handle is opaque and every request stores its handle in animationFrameRef,
\* so a handle whose callback has run may be handed out again.
NextRid(queue) ==
    IF queue = {} THEN 1
    ELSE 1 + (CHOOSE m \in {r.rid : r \in queue} : \A r \in queue : r.rid <= m)

\* cancelAnimationFrame(animationFrameRef.current), guarded by its truthiness
Cancelled(queue, handle) == {r \in queue : r.rid # handle}

blinkAll == <<refVars, loopVars, isFaceDetected, blinkCount, sessVars, histVars,
              now, modelsLoaded>>
livenessStore == <<livenessSelfie, isProcessingLiveness, isLivenessComplete>>

\* ------------------------------------------------------------------------
\* VerifyStart
\* ------------------------------------------------------------------------
\* The "Select" button of a stage is rendered only while the stage is not
\* complete.
SelectGovernmentID ==
    /\ Quiet /\ screen = "start"
    /\ ~isGovernmentIDComplete
    /\ setCurrentStep("identity-front")
    /\ UNCHANGED <<idVars, livenessStore, screen, lastMessage, frontFaceDetected,
                   tasks, selfieSeq, blinkAll>>
    /\ UNCHANGED helperVars

\* (mutated form: the liveness stage opens on the blink screen)
SelectLivenessSkipsSelfie ==
    /\ Quiet /\ screen = "start"
    /\ ~isLivenessComplete
    /\ setCurrentStep("liveness-blink")
    /\ UNCHANGED <<idVars, livenessStore, screen, lastMessage, frontFaceDetected,
                   tasks, selfieSeq, blinkAll>>
    /\ UNCHANGED helperVars

SelectLiveness ==
    /\ Quiet /\ screen = "start"
    /\ ~isLivenessComplete
    /\ setCurrentStep("liveness-front")
    /\ UNCHANGED <<idVars, livenessStore, screen, lastMessage, frontFaceDetected,
                   tasks, selfieSeq, blinkAll>>
    /\ UNCHANGED helperVars

\* ------------------------------------------------------------------------
\* IdentityPhoto (ID front)
\* ------------------------------------------------------------------------
\* captureAndProcess up to the await of extractFaceFromID
CaptureID ==
    /\ Quiet /\ screen = "identity-front"
    /\ ~isProcessingGovernmentID
    /\ \E shot \in BOOLEAN :
         IF ~shot THEN
            /\ lastMessage' = "Failed to capture image. Please try again."
            /\ UNCHANGED <<idVars, tasks>>
         ELSE
            /\ photoSeq < MaxPhotos
            /\ photoSeq' = photoSeq + 1
            /\ setIdentityPhoto(photoSeq + 1)
            /\ setProcessingGovernmentID(TRUE)
            /\ tasks' = tasks \cup {[pc |-> "portrait", env |-> NoEnv]}
            /\ UNCHANGED <<lastMessage, ocrResults, croppedPortrait,
                           isGovernmentIDComplete, isReady, scanSeq>>
    /\ UNCHANGED <<currentStep, livenessStore, screen, frontFaceDetected, selfieSeq, blinkAll>>
    /\ UNCHANGED helperVars

\* the continuation after extractFaceFromID (which returns null on any error)
PortraitReturn ==
    /\ Quiet
    /\ \E t \in tasks :
         /\ t.pc = "portrait"
         /\ tasks' = tasks \ {t}
    /\ \E found \in BOOLEAN, face \in PortraitFaces :
         IF ~found THEN
            /\ lastMessage' = "Face not detected. Please ensure the ID card is clear and try again."
            /\ setProcessingGovernmentID(FALSE)
            /\ UNCHANGED <<currentStep, croppedPortrait>>
         ELSE
            /\ setCroppedPortrait([id |-> identityPhoto, face |-> face])
            /\ lastMessage' = "Front photo captured successfully!"
            /\ setProcessingGovernmentID(FALSE)
            /\ setCurrentStep("identity-back")
    /\ UNCHANGED <<identityPhoto, ocrResults, isGovernmentIDComplete, isReady, photoSeq,
                   scanSeq, livenessStore, screen, frontFaceDetected, selfieSeq, blinkAll>>
    /\ UNCHANGED helperVars

\* ------------------------------------------------------------------------
\* IdentityBackPhoto (ID back) and useOCR
\* ------------------------------------------------------------------------
\* (mutated form: the national ID number is not required)
hasValidOCRResultsNoTcNo ==
    ocrResults.present /\ ocrResults.name # "" /\ ocrResults.surname # ""

hasValidOCRResults ==
    ocrResults.present /\ ocrResults.name # "" /\ ocrResults.surname # "" /\ ocrResults.tcNo # ""

\* lines 58-61 and 205: the panel with the extracted fields and the Retry and
\* Confirm buttons is rendered while validOCRResults is not null
RetryRendered == hasValidOCRResults

\* initWorker: the worker is created and configured, or the creation fails
InitWorkerDone ==
    /\ Quiet
    /\ \E t \in tasks :
         /\ t.pc = "initWorker"
         /\ tasks' = tasks \ {t}
    /\ \E ok \in BOOLEAN : isReady' = (screen = "identity-back" /\ ok)
    /\ UNCHANGED <<currentStep, identityPhoto, ocrResults, croppedPortrait,
                   isProcessingGovernmentID, isGovernmentIDComplete, photoSeq, scanSeq,
                   livenessStore, screen, lastMessage, frontFaceDetected, selfieSeq, blinkAll>>
    /\ UNCHANGED helperVars

\* captureAndProcess up to the await of scanImage; the capture button is
\* rendered while the stored results are not valid
ScanID ==
    /\ Quiet /\ screen = "identity-back"
    /\ ~hasValidOCRResults
    /\ ~isProcessingGovernmentID
    /\ \E shot \in BOOLEAN :
         IF ~isReady THEN
            /\ lastMessage' = "OCR is still initializing. Please wait..."
            /\ UNCHANGED <<idVars, tasks>>
         ELSE IF ~shot THEN
            /\ lastMessage' = "Failed to capture image. Please try again."
            /\ UNCHANGED <<idVars, tasks>>
         ELSE
            /\ scanSeq < MaxScans
            /\ scanSeq' = scanSeq + 1
            /\ setProcessingGovernmentID(TRUE)
            /\ tasks' = tasks \cup {[pc |-> "scan", env |-> NoEnv]}
            /\ UNCHANGED <<lastMessage, identityPhoto, ocrResults, croppedPortrait,
                           isGovernmentIDComplete, isReady, photoSeq>>
    /\ UNCHANGED <<currentStep, livenessStore, screen, frontFaceDetected, selfieSeq, blinkAll>>
    /\ UNCHANGED helperVars

\* the continuation after scanImage, which returns null on any error and
\* otherwise whatever parseOCRText extracted
ScanReturn ==
    /\ Quiet
    /\ \E t \in tasks :
         /\ t.pc = "scan"
         /\ tasks' = tasks \ {t}
    /\ \E ok \in BOOLEAN, n \in FieldValues, s \in FieldValues, tc \in FieldValues :
         IF ~ok THEN
            /\ lastMessage' = "Failed to process ID card. Please try again."
            /\ setProcessingGovernmentID(FALSE)
            /\ UNCHANGED ocrResults
         ELSE
            /\ setOCRResults([present |-> TRUE, name |-> n, surname |-> s, tcNo |-> tc])
            /\ setProcessingGovernmentID(FALSE)
            /\ lastMessage' = IF n = "" \/ s = "" \/ tc = ""
                              THEN "Could not read ID."
                              ELSE "ID information extracted. Please verify the details below."
    /\ UNCHANGED <<currentStep, identityPhoto, croppedPortrait, isGovernmentIDComplete, isReady,
                   photoSeq, scanSeq, livenessStore, screen, frontFaceDetected, selfieSeq,
                   blinkAll>>
    /\ UNCHANGED helperVars

\* handleConfirm; the button is rendered while the stored results are valid
ConfirmID ==
    /\ Quiet /\ screen = "identity-back"
    /\ hasValidOCRResults
    /\ completeGovernmentID
    /\ lastMessage' = "ID information confirmed successfully!"
    /\ setCurrentStep("start")
    /\ UNCHANGED <<identityPhoto, ocrResults, croppedPortrait, isReady, photoSeq, scanSeq,
                   livenessStore, screen, frontFaceDetected, tasks, selfieSeq, blinkAll>>
    /\ UNCHANGED helperVars

\* handleRetry; the button is rendered while the stored results are valid
RetryID ==
    /\ Quiet /\ screen = "identity-back"
    /\ RetryRendered
    /\ setOCRResults(NullOCR)
    /\ lastMessage' = "Please take a new photo of the ID card back."
    /\ UNCHANGED <<currentStep, identityPhoto, croppedPortrait, isProcessingGovernmentID,
                   isGovernmentIDComplete, isReady, photoSeq, scanSeq,
                   livenessStore, screen, frontFaceDetected, tasks, selfieSeq, blinkAll>>
    /\ UNCHANGED helperVars

\* ------------------------------------------------------------------------
\* LivenessFrontPhoto (selfie)
\* ------------------------------------------------------------------------
\* checkFace, every 500 ms: enables the capture button once the video is ready
CheckFace ==
    /\ Quiet /\ screen = "liveness-front"
    /\ ~isProcessingLiveness
    /\ ~frontFaceDetected
    /\ frontFaceDetected' = TRUE
    /\ UNCHANGED <<storeVars, screen, lastMessage, isReady, photoSeq, scanSeq, tasks,
                   selfieSeq, blinkAll>>
    /\ UNCHANGED helperVars

\* captureAndProcess up to the await of extractFaceFromSelfie
CaptureSelfie ==
    /\ Quiet /\ screen = "liveness-front"
    /\ ~isProcessingLiveness
    /\ frontFaceDetected
    /\ \E shot \in BOOLEAN :
         IF ~shot THEN
            /\ lastMessage' = "Failed to capture image. Please try again."
            /\ UNCHANGED <<isProcessingLiveness, tasks>>
         ELSE
            /\ selfieSeq < MaxSelfies
            /\ setProcessingLiveness(TRUE)
            /\ tasks' = tasks \cup {[pc |-> "selfie", env |-> NoEnv]}
            /\ UNCHANGED lastMessage
    /\ UNCHANGED <<currentStep, idVars, livenessSelfie, isLivenessComplete, screen,
                   frontFaceDetected, selfieSeq, blinkAll>>
    /\ UNCHANGED helperVars

\* the continuation after extractFaceFromSelfie (which returns null on any
\* error); every capture yields a new image
SelfieReturn ==
    /\ Quiet
    /\ \E t \in tasks :
         /\ t.pc = "selfie"
         /\ tasks' = tasks \ {t}
    /\ \E found \in BOOLEAN, face \in SelfieFaces :
         IF ~found THEN
            /\ lastMessage' = "Face not detected. Please ensure your face is clearly visible and try again."
            /\ setProcessingLiveness(FALSE)
            /\ UNCHANGED <<currentStep, livenessSelfie, selfieSeq>>
         ELSE
            /\ selfieSeq' = selfieSeq + 1
            /\ setLivenessSelfie([id |-> selfieSeq + 1, face |-> face])
            /\ lastMessage' = "Selfie captured successfully!"
            /\ setProcessingLiveness(FALSE)
            /\ setCurrentStep("liveness-blink")
    /\ UNCHANGED <<idVars, isLivenessComplete, screen, frontFaceDetected, blinkAll>>
    /\ UNCHANGED helperVars

\* ------------------------------------------------------------------------
\* LivenessBlink: the detection loop
\* ------------------------------------------------------------------------
\* detectBlink, lines 45-52: the entry guard returns without rescheduling
\* (mutated form: the isProcessingLiveness of the closure is not consulted)
EntryGuardNoProc(env, video) ==
    \/ ~IsMounted(env)
    \/ video = "missing"
    \/ isComparingRef

EntryGuardReturns(env, video) ==
    \/ ~IsMounted(env)
    \/ video = "missing"
    \/ env.proc
    \/ isComparingRef

\* line 75: the eyes were closed on the previous frame and are not closed now
BlinkEdge(blinkDetected) == ~blinkDetected /\ wasBlinkingRef

\* line 79: the debounce (mutated form: the window is not applied)
DebounceNone(t) == t - lastBlinkTimeRef > 0

DebounceOK(t) == t - lastBlinkTimeRef > BLINK_DEBOUNCE_MS

\* line 94: the count that opens the comparison block
\* (mutated forms: one blink too late; one blink too early)
ReachedLate(newBlinkCount) == newBlinkCount > REQUIRED_BLINKS /\ ~isComparingRef

ReachedEarly(newBlinkCount) == newBlinkCount >= REQUIRED_BLINKS - 1 /\ ~isComparingRef

ReachedRequired(newBlinkCount) == newBlinkCount >= REQUIRED_BLINKS /\ ~isComparingRef

\* line 107: an image is missing (mutated form: only the selfie is checked)
ImagesMissingSelfieOnly(env) == env.selfie = NullImg

ImagesMissing(env) == env.portrait = NullImg \/ env.selfie = NullImg

\* lines 69 and 170: what a tick that has left its await may still do
MayContinue(env) == IsMounted(env)

\* line 170: the loop continues
MayReschedule(env) == IsMounted(env) /\ ~env.proc /\ ~isComparingRef

\* line 176: the effect starts the loop
EffectStartsLoop(env) == TRUE

\* lines 147 and 157: where a comparison that did not match, or failed, sends
\* the flow (mutated form: the blink screen is kept for another try)
StepAfterNoMatchStay == "liveness-blink"

StepAfterNoMatch == "liveness-front"

\* An animation frame fires: detectBlink up to the await of
\* detectBlinkInFrame.
RafFire ==
    /\ Quiet
    /\ \E r \in rafQueue, dt \in TimeSteps, video \in VideoStates :
         /\ now + dt <= MaxTime
         /\ now' = now + dt
         /\ IF EntryGuardReturns(r.env, video) THEN
               /\ rafQueue' = rafQueue \ {r}
               /\ UNCHANGED <<tasks, animationFrameRef>>
            ELSE IF video = "notready" THEN
               /\ rafQueue' = (rafQueue \ {r}) \cup
                              (IF IsMounted(r.env) THEN {[rid |-> NextRid(rafQueue), env |-> r.env]} ELSE {})
               /\ animationFrameRef' = IF IsMounted(r.env) THEN NextRid(rafQueue) ELSE animationFrameRef
               /\ UNCHANGED tasks
            ELSE
               /\ rafQueue' = rafQueue \ {r}
               /\ tasks' = tasks \cup {[pc |-> "detect", env |-> r.env]}
               /\ UNCHANGED animationFrameRef
    /\ UNCHANGED <<storeVars, screen, lastMessage, frontFaceDetected, isFaceDetected,
                   blinkCount, isReady, wasBlinkingRef, lastBlinkTimeRef, blinkCountRef,
                   isComparingRef, effSeq, liveEff, inst, modelsLoaded,
                   selfieSeq, photoSeq, scanSeq, sessVars, histVars>>
    /\ UNCHANGED helperVars

\* detectBlinkInFrame returns: detectBlink from line 69 to the comparison
\* block (line 94) or to the end of the tick.
DetectReturn ==
    /\ Quiet
    /\ \E t \in tasks, frame \in Frames :
         /\ t.pc = "detect"
         /\ LET res == detectBlinkInFrame(frame)
                mine == t.env.inst = inst
                counted == BlinkEdge(res.blinkDetected) /\ DebounceOK(now)
                newBlinkCount == blinkCountRef + 1
                reached == counted /\ ReachedRequired(newBlinkCount)
                again == ~reached /\ MayReschedule(t.env)
                genuine == res.faceDetected /\ lastFaceClosed /\ ~res.blinkDetected
            IN  IF ~MayContinue(t.env) THEN
                   /\ tasks' = tasks \ {t}
                   /\ UNCHANGED <<isProcessingLiveness, lastMessage, isFaceDetected, blinkCount,
                                  refVars, rafQueue, sessVars, staleWrite>>
                ELSE
                   /\ isFaceDetected' = res.faceDetected
                   /\ blinkCountRef' = IF counted /\ mine THEN newBlinkCount ELSE blinkCountRef
                   /\ blinkCount' = IF counted /\ mine THEN newBlinkCount ELSE blinkCount
                   /\ lastBlinkTimeRef' = IF counted /\ mine THEN now ELSE lastBlinkTimeRef
                   /\ lastMessage' = IF counted THEN "Blink detected!" ELSE lastMessage
                   /\ isComparingRef' = IF reached /\ mine THEN TRUE ELSE isComparingRef
                   /\ isProcessingLiveness' = IF reached THEN TRUE ELSE isProcessingLiveness
                   /\ wasBlinkingRef' = IF ~reached /\ mine THEN res.blinkDetected
                                        ELSE wasBlinkingRef
                   /\ rafQueue' =
                        IF reached THEN Cancelled(rafQueue, animationFrameRef)
                        ELSE IF again THEN rafQueue \cup {[rid |-> NextRid(rafQueue), env |-> t.env]}
                        ELSE rafQueue
                   /\ animationFrameRef' =
                        IF reached THEN 0 ELSE IF again THEN NextRid(rafQueue) ELSE animationFrameRef
                   /\ tasks' = (tasks \ {t}) \cup
                               (IF reached THEN {[pc |-> "gate", env |-> t.env]} ELSE {})
                   /\ staleWrite' = (staleWrite \/ ~IsMounted(t.env))
                   /\ sessReached' = (sessReached \/ reached)
                   /\ genuineCount' = IF genuine THEN genuineCount + 1 ELSE genuineCount
                   /\ spacedOK' = (spacedOK /\ (genuine => now - lastBlinkTimeRef > BLINK_DEBOUNCE_MS))
                   /\ lastFaceClosed' = IF res.faceDetected THEN res.blinkDetected
                                        ELSE lastFaceClosed
                   /\ prevClosed' = res.blinkDetected
                   /\ lastFrame' = res
                   /\ sessFrames' = sessFrames + 1
                   /\ UNCHANGED <<sessCompares, sessReset>>
    /\ UNCHANGED <<currentStep, idVars, livenessSelfie, isLivenessComplete, screen,
                   frontFaceDetected, effSeq, liveEff, inst, now, modelsLoaded, selfieSeq,
                   cmpLog, failedSelfies>>
    /\ UNCHANGED helperVars

\* line 114: where an attempt that lacks an image sends the flow
\* (mutated form: the blink screen is kept)
StepAfterMissingStay == "liveness-blink"

StepAfterMissing == "liveness-front"

\* The comparison block, lines 105-123, in the same synchronous run as the
\* count that opened it: the attempt fails at once when an image is missing,
\* otherwise compareFaces is called.
Gate ==
    /\ \E t \in tasks :
         /\ t.pc = "gate"
         /\ IF ImagesMissing(t.env) THEN
               /\ lastMessage' = "Missing face images for comparison"
               /\ setProcessingLiveness(FALSE)
               /\ blinkCountRef' = 0
               /\ blinkCount' = 0
               /\ isComparingRef' = FALSE
               /\ setCurrentStep(StepAfterMissing)
               /\ tasks' = tasks \ {t}
               /\ sessReset' = TRUE
               /\ UNCHANGED sessCompares
            ELSE
               /\ lastMessage' = "Comparing faces..."
               /\ tasks' = (tasks \ {t}) \cup {[pc |-> "compare", env |-> t.env]}
               /\ sessCompares' = sessCompares + 1
               /\ UNCHANGED <<currentStep, isProcessingLiveness, blinkCountRef, blinkCount,
                              isComparingRef, sessReset>>
    /\ UNCHANGED <<idVars, livenessSelfie, isLivenessComplete, screen, frontFaceDetected,
                   isFaceDetected, animationFrameRef, wasBlinkingRef, lastBlinkTimeRef,
                   loopVars, now, modelsLoaded, selfieSeq,
                   sessReached, genuineCount, lastFaceClosed, spacedOK, prevClosed,
                   lastFrame, sessFrames, cmpLog, staleWrite, failedSelfies>>
    /\ UNCHANGED helperVars

MsgNoMatch == "Faces do not match. Please try again."
MsgFailed == "Failed to compare faces. Please try again."

\* compareFaces settles: detectBlink from line 125 to its return at line 159.
\* The continuation does not consult isMounted.
CompareReturn ==
    /\ Quiet
    /\ \E t \in tasks, loadOutcome \in LoadOutcomes, imagesLoad \in BOOLEAN :
         /\ t.pc = "compare"
         /\ tasks' = tasks \ {t}
         /\ LET res == compareFaces(t.env.portrait, t.env.selfie, FACE_MATCH_THRESHOLD,
                                    modelsLoaded, loadOutcome, imagesLoad)
                mine == t.env.inst = inst
            IN  /\ modelsLoaded' = loadModelsLoaded(modelsLoaded, loadOutcome)
                /\ cmpLog' = IF res.kind = "ok"
                             THEN cmpLog \cup {[portrait |-> t.env.portrait,
                                                selfie |-> t.env.selfie,
                                                distance |-> res.distance,
                                                isMatch |-> res.isMatch]}
                             ELSE cmpLog
                /\ IF res.kind = "ok" /\ res.isMatch THEN
                      /\ completeLiveness
                      /\ lastMessage' = "Faces match! Identity verified."
                      /\ setCurrentStep("start")
                      /\ UNCHANGED <<blinkCountRef, blinkCount, isComparingRef, sessReset,
                                     staleWrite, failedSelfies>>
                   ELSE
                      /\ lastMessage' = IF res.kind = "ok"
                                        THEN MsgNoMatch ELSE MsgFailed
                      /\ setProcessingLiveness(FALSE)
                      /\ blinkCountRef' = IF mine THEN 0 ELSE blinkCountRef
                      /\ blinkCount' = IF mine THEN 0 ELSE blinkCount
                      /\ isComparingRef' = IF mine THEN FALSE ELSE isComparingRef
                      /\ setCurrentStep(StepAfterNoMatch)
                      /\ sessReset' = TRUE
                      /\ staleWrite' = (staleWrite \/ ~IsMounted(t.env))
                      /\ failedSelfies' = failedSelfies \cup {t.env.selfie.id}
                      /\ UNCHANGED isLivenessComplete
    /\ UNCHANGED <<idVars, livenessSelfie, screen, frontFaceDetected, isFaceDetected,
                   animationFrameRef, wasBlinkingRef, lastBlinkTimeRef, loopVars, now,
                   selfieSeq, sessCompares, sessReached, genuineCount,
                   lastFaceClosed, spacedOK, prevClosed, lastFrame, sessFrames>>
    /\ UNCHANGED helperVars

\* ------------------------------------------------------------------------
\* React commit
\* ------------------------------------------------------------------------
\* App mounts the component of currentStep and unmounts the previous one; a
\* mounted LivenessBlink whose effect dependencies changed runs the cleanup of
\* the old effect closure (lines 178-185) and then the effect again (lines
\* 38-42 and 176).  A newly mounted component starts from its initial refs
\* and state; the refs and state of an unmounted one are discarded.
Render ==
    /\ RenderPending /\ ~InGate
    /\ screen' = currentStep
    /\ LET wasBlink == screen = "liveness-blink"
           isBlink == currentStep = "liveness-blink"
           fresh == isBlink /\ ~wasBlink
           gone == wasBlink /\ ~isBlink
           env == [id |-> effSeq + 1, inst |-> IF fresh THEN inst + 1 ELSE inst,
                   proc |-> isProcessingLiveness, portrait |-> croppedPortrait,
                   selfie |-> livenessSelfie]
           kept == IF wasBlink THEN Cancelled(rafQueue, animationFrameRef) ELSE rafQueue
           starts == isBlink /\ EffectStartsLoop(env)
       IN  /\ liveEff' = IF isBlink THEN env ELSE NoEnv
           /\ effSeq' = IF isBlink THEN effSeq + 1 ELSE effSeq
           /\ inst' = env.inst
           /\ rafQueue' = IF starts THEN kept \cup {[rid |-> NextRid(rafQueue), env |-> env]} ELSE kept
           /\ animationFrameRef' = IF starts THEN NextRid(rafQueue)
                                   ELSE IF wasBlink \/ isBlink THEN 0 ELSE animationFrameRef
           /\ isComparingRef' = IF wasBlink \/ isBlink THEN FALSE ELSE isComparingRef
           /\ blinkCountRef' = IF isBlink \/ gone THEN 0 ELSE blinkCountRef
           /\ blinkCount' = IF isBlink \/ gone THEN 0 ELSE blinkCount
           /\ wasBlinkingRef' = IF fresh \/ gone THEN FALSE ELSE wasBlinkingRef
           /\ lastBlinkTimeRef' = IF fresh \/ gone THEN 0 ELSE lastBlinkTimeRef
           /\ isFaceDetected' = IF fresh \/ gone THEN FALSE ELSE isFaceDetected
           /\ sessCompares' = IF fresh \/ gone THEN 0 ELSE sessCompares
           /\ sessReached' = IF fresh \/ gone THEN FALSE ELSE sessReached
           /\ sessReset' = IF fresh \/ gone THEN FALSE ELSE IF isBlink THEN TRUE ELSE sessReset
           /\ genuineCount' = IF fresh \/ gone THEN 0 ELSE genuineCount
           /\ lastFaceClosed' = IF fresh \/ gone THEN FALSE ELSE lastFaceClosed
           /\ spacedOK' = IF fresh \/ gone THEN TRUE ELSE spacedOK
           /\ prevClosed' = IF fresh \/ gone THEN FALSE ELSE prevClosed
           /\ sessFrames' = IF fresh \/ gone THEN 0 ELSE sessFrames
           /\ lastFrame' = IF fresh \/ gone THEN NoFrame ELSE lastFrame
    /\ frontFaceDetected' = IF currentStep = "liveness-front" /\ screen # "liveness-front"
                            THEN FALSE ELSE frontFaceDetected
    /\ IF currentStep = "identity-back" /\ screen # "identity-back" THEN
          /\ isReady' = FALSE
          /\ tasks' = tasks \cup {[pc |-> "initWorker", env |-> NoEnv]}
       ELSE UNCHANGED <<isReady, tasks>>
    /\ UNCHANGED <<storeVars, lastMessage, photoSeq, scanSeq, selfieSeq, now, modelsLoaded,
                   histVars>>
    /\ UNCHANGED helperVars

Next ==
    \/ SelectGovernmentID
    \/ SelectLiveness
    \/ CaptureID
    \/ PortraitReturn
    \/ InitWorkerDone
    \/ ScanID
    \/ ScanReturn
    \/ ConfirmID
    \/ RetryID
    \/ CheckFace
    \/ CaptureSelfie
    \/ SelfieReturn
    \/ RafFire
    \/ DetectReturn
    \/ Gate
    \/ CompareReturn
    \/ Render

Spec == Init /\ [][Next]_vars

\* ------------------------------------------------------------------------
\* Strings (mrzParser: parseOCRText)
\* ------------------------------------------------------------------------
\* A string is the sequence of its characters.  undefined and null are two
\* values that are no strings.
Upper == {"A", "B", "C", "D", "E", "F", "G", "H", "I", "J", "K", "L", "M",
          "N", "O", "P", "Q", "R", "S", "T", "U", "V", "W", "X", "Y", "Z"}
Digit == {"0", "1", "2", "3", "4", "5", "6", "7", "8", "9"}
Filler == "<"
\* the character class [A-Z0-9<]
MrzAlphabet == Upper \cup Digit \cup {Filler}
\* what String.prototype.trim removes
WhiteSpace == {" ", "\t", "\n", "\r"}
\* the separators of text.split(/\n|\r/)
LineBreaks == {"\n", "\r"}

Undefined == <<"undefined">>
Null == <<"null">>
\* JavaScript truthiness of a string-or-null-or-undefined value
Truthy(v) == v # Undefined /\ v # Null /\ v # <<>>

\* c repeated n times
Rep(c, n) == [i \in 1..n |-> c]
\* s.substring(0, n)
Prefix(s, n) == SubSeq(s, 1, IF n < Len(s) THEN n ELSE Len(s))
\* s.substring(n)
Suffix(s, n) == SubSeq(s, n + 1, Len(s))
\* s.replace(/[^...]/g, ""): the characters of s that are in class
Keep(s, class) == SelectSeq(s, LAMBDA c : c \in class)
\* s.replace(/</g, "")
StripFillers(s) == SelectSeq(s, LAMBDA c : c # Filler)
\* /^[...]+$/.test(s) for a non-empty s, /^[...]*$/ otherwise
AllIn(s, class) == \A i \in 1..Len(s) : s[i] \in class
\* the least element of a non-empty set of numbers
Least(S) == CHOOSE m \in S : \A k \in S : m <= k

\* s.trim()
trim(s) ==
    LET ink == {i \in 1..Len(s) : s[i] \notin WhiteSpace}
    IN  IF ink = {} THEN <<>>
        ELSE SubSeq(s, Least(ink), CHOOSE m \in ink : \A k \in ink : k <= m)

\* s.split(/\n|\r/) and s.split(" "): split at every character of seps
RECURSIVE splitAt(_, _)
splitAt(s, seps) ==
    LET at == {i \in 1..Len(s) : s[i] \in seps}
    IN  IF at = {} THEN <<s>>
        ELSE <<SubSeq(s, 1, Least(at) - 1)>> \o splitAt(Suffix(s, Least(at)), seps)

\* s.split(/<{2,}/): split at every maximal run of two or more fillers
RECURSIVE splitFillerRuns(_)
splitFillerRuns(s) ==
    LET at == {i \in 1..(Len(s) - 1) : s[i] = Filler /\ s[i + 1] = Filler}
    IN  IF at = {} THEN <<s>>
        ELSE LET i == Least(at)
                 past == {j \in i..Len(s) : \A k \in i..j : s[k] = Filler}
                 j == CHOOSE m \in past : \A k \in past : k <= m
             IN  <<SubSeq(s, 1, i - 1)>> \o splitFillerRuns(Suffix(s, j))

\* the length of the longest prefix of s made of characters of class
RunLength(s, class) ==
    LET stops == {i \in 1..Len(s) : s[i] \notin class}
    IN  IF stops = {} THEN Len(s) ELSE Least(stops) - 1

\* s.match(/^[A-Z]{lo,hi}/): the match, or null
matchUpperPrefix(s, lo, hi) ==
    LET n == RunLength(s, Upper)
    IN  IF n < lo THEN Null ELSE Prefix(s, IF n < hi THEN n ELSE hi)

\* s.match(/[A-Z]+/g) || []: the maximal runs of uppercase letters
RECURSIVE matchUpperRuns(_)
matchUpperRuns(s) ==
    LET at == {i \in 1..Len(s) : s[i] \in Upper}
    IN  IF at = {} THEN <<>>
        ELSE LET rest == Suffix(s, Least(at) - 1)
                 n == RunLength(rest, Upper)
             IN  <<Prefix(rest, n)>> \o matchUpperRuns(Suffix(rest, n))

\* s.match(/([0-9]{11})/): the first run of n digits, or null
matchDigits(s, n) ==
    LET at == {i \in 1..(Len(s) - n + 1) : \A k \in 0..(n - 1) : s[i + k] \in Digit}
    IN  IF at = {} THEN Null ELSE SubSeq(s, Least(at), Least(at) + n - 1)

\* ------------------------------------------------------------------------
\* parseOCRText: line selection and normalization
\* ------------------------------------------------------------------------
TD1_LINE_LENGTH == 30
MIN_MRZ_LINE == 20
MAX_MRZ_LINES == 3
TC_NO_LENGTH == 11
MIN_NAME_LENGTH == 4
MAX_NAME_LENGTH == 15

\* line 134: text.split(/\n|\r/).map((line) => line.trim())
allLines(text) ==
    LET raw == splitAt(text, LineBreaks)
    IN  [i \in 1..Len(raw) |-> trim(raw[i])]

\* line 137: line.length > 20 && /^[A-Z0-9<]{20,}$/.test(line)
\* (mutated form: the alphabet is not tested)
isMrzCandidateAnyAlphabet(line) == Len(line) > MIN_MRZ_LINE

isMrzCandidate(line) ==
    /\ Len(line) > MIN_MRZ_LINE
    /\ Len(line) >= MIN_MRZ_LINE /\ AllIn(line, MrzAlphabet)

\* (mutated form: the line is cut to 30 characters but a short one is not padded)
normalizeLineNoPadding(line) ==
    Prefix(Keep(line, MrzAlphabet), TD1_LINE_LENGTH)

\* lines 141-153: the characters outside the alphabet are removed, the line
\* is cut to 30 characters and padded with fillers up to 30
normalizeLine(line) ==
    LET cleaned == Keep(line, MrzAlphabet)
        cut == IF Len(cleaned) > TD1_LINE_LENGTH THEN Prefix(cleaned, TD1_LINE_LENGTH)
               ELSE cleaned
    IN  cut \o Rep(Filler, TD1_LINE_LENGTH - Len(cut))

\* lines 136-153: the first three candidate lines, normalized
\* (mutated form: the last three candidate lines are kept)
mrzLinesOfLastThree(text) ==
    LET all == SelectSeq(allLines(text), isMrzCandidate)
        kept == Suffix(all, IF Len(all) > MAX_MRZ_LINES THEN Len(all) - MAX_MRZ_LINES ELSE 0)
    IN  [i \in 1..Len(kept) |-> normalizeLine(kept[i])]

mrzLinesOf(text) ==
    LET kept == Prefix(SelectSeq(allLines(text), isMrzCandidate), MAX_MRZ_LINES)
    IN  [i \in 1..Len(kept) |-> normalizeLine(kept[i])]

\* ------------------------------------------------------------------------
\* parseOCRText: the fields
\* ------------------------------------------------------------------------
\* What parse(mrzLines) of the mrz package does: it throws, or it returns a
\* result without fields, or a result whose fields are strings or null.
NoFields == [kind |-> "nofields", givenNames |-> Null, surname |-> Null,
             personalNumber |-> Null, optionalData |-> Null, documentNumber |-> Null]
ParseThrows == [kind |-> "throws", givenNames |-> Null, surname |-> Null,
                personalNumber |-> Null, optionalData |-> Null, documentNumber |-> Null]

\* lines 127-132
emptyParsedData(text) ==
    [name |-> Undefined, surname |-> Undefined, tcNo |-> Undefined, rawText |-> text]

\* lines 178-179, 188-189, 200-201: the field without fillers is 11 digits
\* (mutated form: the length is not checked)
isTcNoAnyLength(docNo) == Len(docNo) >= 1 /\ AllIn(docNo, Digit)

isTcNo(docNo) == Len(docNo) = TC_NO_LENGTH /\ Len(docNo) >= 1 /\ AllIn(docNo, Digit)

\* lines 172-205: personalNumber, then optionalData, then documentNumber
\* (mutated form: documentNumber is tried first)
structuredTcNoDocumentFirst(fields) ==
    LET pn == IF Truthy(fields.personalNumber) THEN StripFillers(fields.personalNumber) ELSE Null
        od == IF Truthy(fields.optionalData) THEN StripFillers(fields.optionalData) ELSE Null
        dn == IF Truthy(fields.documentNumber) THEN StripFillers(fields.documentNumber) ELSE Null
    IN  IF dn # Null /\ isTcNo(dn) THEN dn
        ELSE IF pn # Null /\ isTcNo(pn) THEN pn
        ELSE IF od # Null /\ isTcNo(od) THEN od
        ELSE Undefined

structuredTcNo(fields) ==
    LET pn == IF Truthy(fields.personalNumber) THEN StripFillers(fields.personalNumber) ELSE Null
        od == IF Truthy(fields.optionalData) THEN StripFillers(fields.optionalData) ELSE Null
        dn == IF Truthy(fields.documentNumber) THEN StripFillers(fields.documentNumber) ELSE Null
    IN  IF pn # Null /\ isTcNo(pn) THEN pn
        ELSE IF od # Null /\ isTcNo(od) THEN od
        ELSE IF dn # Null /\ isTcNo(dn) THEN dn
        ELSE Undefined

\* lines 159-206: what the structured parse stores
structuredParse(parsedData, mrzResult) ==
    IF mrzResult.kind # "fields" THEN parsedData
    ELSE [parsedData EXCEPT
            !.name = IF Truthy(mrzResult.givenNames)
                     THEN splitAt(mrzResult.givenNames, {" "})[1] ELSE @,
            !.surname = IF Truthy(mrzResult.surname) THEN mrzResult.surname ELSE @,
            !.tcNo = structuredTcNo(mrzResult)]

\* lines 238-261: the first surname length from 4 to 15 that leaves an
\* uppercase run of at least 4 letters right after an all-uppercase head
\* (mutated form: the longest such surname is taken)
lengthBasedPartsLongest(cleanLine3) ==
    LET fits == {n \in MIN_NAME_LENGTH..MAX_NAME_LENGTH :
                    /\ Len(cleanLine3) > n + 4
                    /\ matchUpperPrefix(Suffix(cleanLine3, n), 4, 15) # Null
                    /\ AllIn(Prefix(cleanLine3, n), Upper)}
        longest == CHOOSE n \in fits : \A k \in fits : k <= n
    IN  IF fits = {} THEN <<>>
        ELSE <<Prefix(cleanLine3, longest),
               matchUpperPrefix(Suffix(cleanLine3, longest), 4, 15)>>

lengthBasedParts(cleanLine3) ==
    LET fits == {n \in MIN_NAME_LENGTH..MAX_NAME_LENGTH :
                    /\ Len(cleanLine3) > n + 4
                    /\ matchUpperPrefix(Suffix(cleanLine3, n), 4, 15) # Null
                    /\ AllIn(Prefix(cleanLine3, n), Upper)}
    IN  IF fits = {} THEN <<>>
        ELSE <<Prefix(cleanLine3, Least(fits)),
               matchUpperPrefix(Suffix(cleanLine3, Least(fits)), 4, 15)>>

\* lines 210-262: the parts of the third line
line3Parts(line3) ==
    LET cleanLine3 == trim(StripFillers(line3))
        pieces == splitFillerRuns(line3)
        parts == SelectSeq([i \in 1..Len(pieces) |-> trim(pieces[i])], LAMBDA q : Len(q) > 0)
        uppercaseSequences == matchUpperRuns(cleanLine3)
        byPattern ==
            IF /\ Len(uppercaseSequences) >= 2
               /\ Len(uppercaseSequences[1]) >= MIN_NAME_LENGTH
               /\ Len(uppercaseSequences[1]) <= MAX_NAME_LENGTH
               /\ Len(uppercaseSequences[2]) >= MIN_NAME_LENGTH
               /\ Len(uppercaseSequences[2]) <= MAX_NAME_LENGTH
            THEN <<uppercaseSequences[1], uppercaseSequences[2]>>
            ELSE parts
        byLength == lengthBasedParts(cleanLine3)
    IN  IF Len(parts) < 2 /\ Len(cleanLine3) > 0 THEN
           IF Len(byPattern) < 2 /\ byLength # <<>> THEN byLength ELSE byPattern
        ELSE parts

\* lines 264-276: the surname read from the first part, or undefined
heuristicSurname(part) ==
    LET surname == trim(StripFillers(part))
        surnameMatch == matchUpperPrefix(surname, MIN_NAME_LENGTH, MAX_NAME_LENGTH)
        cleaned == Keep(surname, Upper)
    IN  IF surnameMatch # Null THEN surnameMatch
        ELSE IF Len(cleaned) >= MIN_NAME_LENGTH /\ Len(cleaned) <= MAX_NAME_LENGTH THEN cleaned
        ELSE Undefined

\* lines 278-284: the name read from the second part, or undefined
\* (mutated form: a name of four letters is too short)
heuristicNameLonger(part) ==
    LET firstName == matchUpperPrefix(trim(StripFillers(part)), MIN_NAME_LENGTH + 1, MAX_NAME_LENGTH)
    IN  IF firstName # Null /\ Len(firstName) >= 4 THEN firstName ELSE Undefined

heuristicName(part) ==
    LET firstName == matchUpperPrefix(trim(StripFillers(part)), MIN_NAME_LENGTH, MAX_NAME_LENGTH)
    IN  IF firstName # Null /\ Len(firstName) >= 4 THEN firstName ELSE Undefined

\* lines 264 and 278: the fallback writes a field only when it is falsy
\* (mutated form: the fallback writes whatever it found)
fallbackMayWriteAlways(current) == TRUE

fallbackMayWrite(current) == ~Truthy(current)

\* lines 208-285: the fallback on the third line
heuristicFallback(parsedData, mrzLines) ==
    IF ~((~Truthy(parsedData.name) \/ ~Truthy(parsedData.surname)) /\ Len(mrzLines) >= 3)
    THEN parsedData
    ELSE LET parts == line3Parts(mrzLines[3])
             surname == IF Len(parts) >= 1 THEN heuristicSurname(parts[1]) ELSE Undefined
             name == IF Len(parts) >= 2 THEN heuristicName(parts[2]) ELSE Undefined
         IN  [parsedData EXCEPT
                !.surname = IF Len(parts) >= 1 /\ fallbackMayWrite(@) /\ surname # Undefined
                            THEN surname ELSE @,
                !.name = IF Len(parts) >= 2 /\ fallbackMayWrite(@) /\ name # Undefined
                         THEN name ELSE @]

\* lines 287-299: the national ID number from the raw text, then from line 1
\* (mutated form: line 1 is searched before the raw text)
tcNoFallbackLineFirst(parsedData, text, mrzLines) ==
    IF Truthy(parsedData.tcNo) THEN parsedData
    ELSE LET tcNoMatch == matchDigits(text, TC_NO_LENGTH)
             line1Match == matchDigits(mrzLines[1], TC_NO_LENGTH)
         IN  IF Len(mrzLines) >= 2 /\ line1Match # Null
             THEN [parsedData EXCEPT !.tcNo = line1Match]
             ELSE IF tcNoMatch # Null THEN [parsedData EXCEPT !.tcNo = tcNoMatch]
             ELSE parsedData

tcNoFallback(parsedData, text, mrzLines) ==
    IF Truthy(parsedData.tcNo) THEN parsedData
    ELSE LET tcNoMatch == matchDigits(text, TC_NO_LENGTH)
             line1Match == matchDigits(mrzLines[1], TC_NO_LENGTH)
         IN  IF tcNoMatch # Null THEN [parsedData EXCEPT !.tcNo = tcNoMatch]
             ELSE IF Len(mrzLines) >= 2 /\ line1Match # Null
                  THEN [parsedData EXCEPT !.tcNo = line1Match]
             ELSE parsedData

\* lines 300-306: the catch block (mutated form: the error is thrown on)
onParseErrorRethrow(parsedData, text) ==
    [threw |-> TRUE, data |-> parsedData]

onParseError(parsedData, text) ==
    LET tcNoMatch == matchDigits(text, TC_NO_LENGTH)
    IN  [threw |-> FALSE,
         data |-> IF tcNoMatch # Null THEN [parsedData EXCEPT !.tcNo = tcNoMatch]
                  ELSE parsedData]

\* line 155: the parser is run on two candidate lines or more
enoughLines(mrzLines) == Len(mrzLines) >= 2

\* parseOCRText(text), given what parse(mrzLines) does
parseOCRText(text, mrzResult) ==
    LET parsedData == emptyParsedData(text)
        mrzLines == mrzLinesOf(text)
    IN  IF ~enoughLines(mrzLines) THEN [threw |-> FALSE, data |-> parsedData]
        ELSE IF mrzResult.kind = "throws" THEN onParseError(parsedData, text)
        ELSE [threw |-> FALSE,
              data |-> tcNoFallback(
                           heuristicFallback(structuredParse(parsedData, mrzResult), mrzLines),
                           text, mrzLines)]

\* ------------------------------------------------------------------------
\* parseOCRText: the inputs
\* ------------------------------------------------------------------------
\* sample words and numbers
KAYA == <<"K", "A", "Y", "A">>
ALIX == <<"A", "L", "I", "X">>
VELI == <<"V", "E", "L", "I">>
MERT == <<"M", "E", "R", "T">>
OZTURK == <<"O", "Z", "T", "U", "R", "K">>
TcNoA == <<"1", "2", "3", "4", "5", "6", "7", "8", "9", "0", "1">>
TcNoB == <<"2", "3", "4", "5", "6", "7", "8", "9", "0", "1", "2">>
TcNoC == <<"3", "4", "5", "6", "7", "8", "9", "0", "1", "2", "3">>
TenDigits == <<"1", "2", "3", "4", "5", "6", "7", "8", "9", "0">>
TwelveDigits == <<"9", "8", "7", "6", "5", "4", "3", "2", "1", "0", "1", "2">>
SerialNo == <<"A", "1", "2", "Z", "3", "4", "5", "6", "7">>
Line1Head == <<"I", "<", "T", "U", "R">>
Line2Body ==
    <<"9", "0", "0", "1", "0", "1", "1", "M", "3", "0", "0", "1",
      "0", "1", "2", "T", "U", "R">>

\* s followed by fillers up to n characters
PadTo(s, n) == s \o Rep(Filler, n - Len(s))

\* What parse(mrzLines) may return in the fields parseOCRText reads.
GivenNamesValues == {Null, MERT \o <<" ">> \o VELI, <<" ">> \o ALIX}
SurnameValues == {Null, OZTURK}
\* personalNumber, optionalData, documentNumber
NumberValues ==
    { <<Null, Null, Null>>,
      <<TcNoA \o Rep(Filler, 3), TcNoB, Null>>,
      <<TenDigits, TcNoB, TcNoC>>,
      <<Null, TwelveDigits, TcNoC>>,
      <<TenDigits \o <<"A">>, Null, SerialNo>> }
MrzResults ==
    {NoFields, ParseThrows} \cup
    { [kind |-> "fields", givenNames |-> g, surname |-> sn,
       personalNumber |-> n[1], optionalData |-> n[2], documentNumber |-> n[3]] :
         g \in GivenNamesValues, sn \in SurnameValues, n \in NumberValues }

\* The lines of the OCR text.  Absent is a line that is not there.
Absent == <<"absent">>
\* lines that are no candidates: an 11-digit run alone, 20 letters, and a long
\* line with blanks and a 12-digit run
NoiseLines ==
    { Absent, TcNoC, Rep("A", MIN_MRZ_LINE),
      <<"N", "o", " ">> \o TwelveDigits \o <<" ">> \o KAYA \o <<" ">> \o ALIX }
\* first lines: 30 characters with an 11-digit run; 21 characters; 32
\* characters between blanks
FirstLines ==
    { Absent,
      Line1Head \o SerialNo \o <<Filler>> \o TcNoA \o Rep(Filler, 4),
      PadTo(Line1Head \o SerialNo, MIN_MRZ_LINE + 1),
      <<" ", "\t">> \o PadTo(Line1Head \o SerialNo, TD1_LINE_LENGTH + 1) \o <<"7", " ">> }
SecondLines == {Absent, PadTo(Line2Body, TD1_LINE_LENGTH - 1) \o <<"8">>}
\* third lines: the TD1 layout, and what OCR makes of it
ThirdLines ==
    { Absent,
      PadTo(KAYA \o Rep(Filler, 2) \o ALIX \o <<Filler>> \o VELI, TD1_LINE_LENGTH),
      PadTo(KAYA \o Rep(Filler, 3) \o ALIX, TD1_LINE_LENGTH),
      PadTo(KAYA \o ALIX, TD1_LINE_LENGTH),
      PadTo(KAYA \o <<"X">> \o ALIX \o <<"Y">>, TD1_LINE_LENGTH),
      PadTo(KAYA \o <<"7">> \o ALIX, TD1_LINE_LENGTH),
      PadTo(<<"K", "A", "Y">> \o Rep(Filler, 2) \o <<"A", "L", "I">>, TD1_LINE_LENGTH),
      PadTo(KAYA \o <<Filler>> \o ALIX, TD1_LINE_LENGTH),
      PadTo(OZTURK \o Rep(Filler, 2) \o MERT, TD1_LINE_LENGTH),
      Rep(Filler, TD1_LINE_LENGTH) }
\* what follows: nothing, a candidate line (also on a line of its own), or a
\* long line that is none
LastLines ==
    { Absent,
      PadTo(VELI \o Rep(Filler, 2) \o MERT, TD1_LINE_LENGTH),
      <<"\n">> \o PadTo(VELI \o Rep(Filler, 2) \o MERT, TD1_LINE_LENGTH),
      <<"k", "i", "m", "l", "i", "k">> \o Rep(" ", 2) \o Rep("x", MIN_MRZ_LINE) }

\* the lines that are there, each followed by its line terminator
Joined(lines, terminators) ==
    LET there == SelectSeq(lines, LAMBDA l : l # Absent)
        Cat[i \in 0..Len(there)] ==
            IF i = 0 THEN <<>>
            ELSE Cat[i - 1] \o there[i] \o terminators[((i - 1) % Len(terminators)) + 1]
    IN  Cat[Len(there)]

\* the terminators a text uses: "\r\n" after its first line, "\n" after the
\* second, none after the third, "\r" after the fourth
Terminators == << <<"\r", "\n">>, <<"\n">>, <<>>, <<"\r">> >>

Texts ==
    { Joined(<<n, l1, l2, l3, l4>>, Terminators) :
        n \in NoiseLines, l1 \in FirstLines, l2 \in SecondLines, l3 \in ThirdLines,
        l4 \in LastLines }

ParseOCRTextCalls == [fn : {"parseOCRText"}, text : Texts, mrzResult : MrzResults]

\* the candidate lines of the texts, and candidates of 21, 29, 30, 31 and 44
\* characters
NormalizeLineCalls ==
    [fn : {"normalizeLine"},
     line : { trim(l) : l \in {x \in FirstLines \cup SecondLines \cup ThirdLines \cup LastLines :
                                 x # Absent /\ isMrzCandidate(trim(x))} }
            \cup { PadTo(KAYA \o <<"7">>, n) \o ALIX : n \in {17, 25, 26, 27, 40} }]

\* ------------------------------------------------------------------------
\* imageProcessor: preprocessMRZImage, the binarization of the pixels
\* ------------------------------------------------------------------------
\* JavaScript numbers are IEEE 754 double-precision numbers.  Every number
\* the luminance computation meets is a non-negative multiple of 2^-56 below
\* 2^10; it is kept as the number of its 2^-56 units, written as three limbs
\* of 22 bits, the least significant first.
FRACTION_BITS == 56
SIGNIFICAND_BITS == 53
LIMB_BITS == 22

\* the number x0 + x1 * 2^22 + x2 * 2^44, with the carries propagated
Limbs(x0, x1, x2) ==
    LET LIMB == 2^LIMB_BITS
        c0 == x0 \div LIMB
        c1 == (x1 + c0) \div LIMB
    IN  <<x0 % LIMB, (x1 + c0) % LIMB, x2 + c1>>
\* a + b
AddBig(a, b) == Limbs(a[1] + b[1], a[2] + b[2], a[3] + b[3])
\* a * k for k up to 255
MulSmall(a, k) == Limbs(a[1] * k, a[2] * k, a[3] * k)
\* the number written by the hexadecimal digits h
FromHex(h) ==
    LET Value[i \in 0..Len(h)] ==
            IF i = 0 THEN <<0, 0, 0>>
            ELSE AddBig(MulSmall(Value[i - 1], 16), <<h[i], 0, 0>>)
    IN  Value[Len(h)]
\* the whole number n, below 2^10, in 2^-56 units
Whole(n) == <<0, 0, n * 2^(FRACTION_BITS - 2 * LIMB_BITS)>>
\* the number of significant bits of a number
BitLen(a) ==
    LET LimbLen(x) == Cardinality({k \in 0..LIMB_BITS : 2^k <= x})
    IN  IF a[3] > 0 THEN 2 * LIMB_BITS + LimbLen(a[3])
        ELSE IF a[2] > 0 THEN LIMB_BITS + LimbLen(a[2])
        ELSE LimbLen(a[1])
\* a > b
GreaterBig(a, b) ==
    \/ a[3] > b[3]
    \/ a[3] = b[3] /\ a[2] > b[2]
    \/ a[3] = b[3] /\ a[2] = b[2] /\ a[1] > b[1]
\* The result of an arithmetic operation is the double nearest to the exact
\* result, the one with an even significand when two are equally near: the
\* exact result keeps its 53 leading bits, and is rounded up when the bits
\* dropped are more than half a unit of the last kept bit, or exactly half
\* and the last kept bit is 1.  A number below 2^10 drops less than 22 bits,
\* all of the lowest limb.
RoundDouble(a) ==
    LET drop == BitLen(a) - SIGNIFICAND_BITS
    IN  IF drop <= 0 THEN a
        ELSE LET unit == 2^drop
                 dropped == a[1] % unit
                 lastKept == IF drop < LIMB_BITS THEN (a[1] \div unit) % 2 ELSE a[2] % 2
                 up == 2 * dropped > unit \/ (2 * dropped = unit /\ lastKept = 1)
             IN  Limbs(a[1] - dropped + (IF up THEN unit ELSE 0), a[2], a[3])

\* the literals 0.299, 0.587 and 0.114 (lines 77 and 169): the doubles
\* 0x1.322d0e5604189p-2, 0x1.2c8b439581062p-1 and 0x1.d2f1a9fbe76c9p-4
WEIGHT_R == MulSmall(FromHex(<<1, 3, 2, 2, 13, 0, 14, 5, 6, 0, 4, 1, 8, 9>>), 2^(FRACTION_BITS - 54))
WEIGHT_G == MulSmall(FromHex(<<1, 2, 12, 8, 11, 4, 3, 9, 5, 8, 1, 0, 6, 2>>), 2^(FRACTION_BITS - 53))
WEIGHT_B == MulSmall(FromHex(<<1, 13, 2, 15, 1, 10, 9, 15, 11, 14, 7, 6, 12, 9>>), 2^(FRACTION_BITS - 56))
BINARY_THRESHOLD == 110
WHITE == 255
BLACK == 0

\* lines 77 and 169: gray = 0.299 * r + 0.587 * g + 0.114 * b, evaluated from
\* left to right, every product and every sum rounded
grayOf(r, g, b) ==
    RoundDouble(AddBig(RoundDouble(AddBig(RoundDouble(MulSmall(WEIGHT_R, r)),
                                          RoundDouble(MulSmall(WEIGHT_G, g)))),
                       RoundDouble(MulSmall(WEIGHT_B, b))))

\* lines 81 and 172: final = gray > BINARY_THRESHOLD ? 255 : 0
\* (mutated form: a pixel at the threshold is white)
finalOfAtLeast(gray) ==
    IF ~GreaterBig(Whole(BINARY_THRESHOLD), gray) THEN WHITE ELSE BLACK

finalOf(gray) ==
    IF GreaterBig(gray, Whole(BINARY_THRESHOLD)) THEN WHITE ELSE BLACK

\* lines 71-86 and 163-177: the loop over imageData.data, four bytes (R, G,
\* B, A) per pixel; the first three are overwritten
thresholdData(data) ==
    [i \in 1..Len(data) |->
        LET first == i - ((i - 1) % 4)
        IN  IF i % 4 = 0 THEN data[i]
            ELSE finalOf(grayOf(data[first], data[first + 1], data[first + 2]))]

\* preprocessMRZImage on the pixels that getImageData returns for the cropped
\* and upscaled drawing; the promise is rejected when the image does not
\* load or the canvas gives no 2D context
preprocessMRZImage(surface, data) ==
    IF surface = "noimage" THEN [kind |-> "reject", why |-> "Failed to load image", data |-> <<>>]
    ELSE IF surface = "nocontext"
    THEN [kind |-> "reject", why |-> "Could not get canvas context", data |-> <<>>]
    ELSE [kind |-> "ok", why |-> "", data |-> thresholdData(data)]

\* The pixels of the inputs: black, white, greys at and around the threshold,
\* and colours whose weighted sum is 110 or next to it.
Pixels ==
    {<<r, g, b, a>> : r \in {0, 110, 207, 255}, g \in {0, 67, 110, 111, 255},
                      b \in {0, 77, 78, 110, 255}, a \in {0, 200}}
\* images of no pixel, of one pixel and of two
ImageDatas ==
    {<<>>} \cup Pixels
    \cup {p \o q : p \in {<<110, 110, 110, 200>>, <<207, 67, 77, 0>>},
                   q \in {<<255, 255, 255, 0>>, <<110, 111, 110, 200>>, <<0, 0, 0, 7>>}}
\* the image loads and the canvas gives a context, or one of the two fails
PreprocessCalls ==
    [fn : {"preprocessMRZImage"}, surface : {"ok", "noimage", "nocontext"}, data : ImageDatas]

\* ------------------------------------------------------------------------
\* The library functions on their own
\* ------------------------------------------------------------------------
\* compareFaces and parseOCRText do not read the session: each is applied
\* once to arguments drawn from the sets below, with the session left in its
\* initial state.
flowVars == <<storeVars, screen, lastMessage, frontFaceDetected, isFaceDetected, blinkCount,
              isReady, refVars, loopVars, tasks, now, modelsLoaded, selfieSeq,
              photoSeq, scanSeq, sessVars, histVars, ocrVars>>

\* thresholds a caller may pass to compareFaces (its third parameter)
Thresholds == {30, 40, 41, FACE_MATCH_THRESHOLD, 60}
Faces == 0..Len(Descriptors)

CompareFacesCalls ==
    [fn : {"compareFaces"}, image1 : Faces, image2 : Faces, threshold : Thresholds,
     loaded : BOOLEAN, loadOutcome : LoadOutcomes, imagesLoad : BOOLEAN]

PureCalls ==
    CompareFacesCalls \cup ParseOCRTextCalls \cup NormalizeLineCalls \cup PreprocessCalls

PureInit ==
    /\ InitialSession
    /\ InitialOCR
    /\ call \in PureCalls
    /\ ret = Pending

CallCompareFaces ==
    /\ call.fn = "compareFaces" /\ ret = Pending
    /\ ret' = compareFaces([id |-> 1, face |-> call.image1], [id |-> 1, face |-> call.image2],
                           call.threshold, call.loaded, call.loadOutcome, call.imagesLoad)
    /\ UNCHANGED <<call, flowVars>>

\* lines 141-153 applied to one candidate line
CallNormalizeLine ==
    /\ call.fn = "normalizeLine" /\ ret = Pending
    /\ ret' = [kind |-> "ok", line |-> normalizeLine(call.line)]
    /\ UNCHANGED <<call, flowVars>>

CallParseOCRText ==
    /\ call.fn = "parseOCRText" /\ ret = Pending
    /\ ret' = parseOCRText(call.text, call.mrzResult)
    /\ UNCHANGED <<call, flowVars>>

CallPreprocessMRZImage ==
    /\ call.fn = "preprocessMRZImage" /\ ret = Pending
    /\ ret' = preprocessMRZImage(call.surface, call.data)
    /\ UNCHANGED <<call, flowVars>>

PureNext ==
    \/ CallCompareFaces
    \/ CallNormalizeLine
    \/ CallParseOCRText
    \/ CallPreprocessMRZImage

PureSpec == PureInit /\ [][PureNext]_vars

\* ------------------------------------------------------------------------
\* useOCR and its owner, IdentityBackPhoto, step by step
\* ------------------------------------------------------------------------
\* The hook is followed from the mount of its owner: the effect has called
\* initWorker, which is suspended in createWorker.  A task is [pc, worker]:
\* the await it is suspended in and the worker the awaited call works on.
\* texts the recognition may return: nothing, a lone 11-digit run, two
\* candidate lines, three candidate lines
ScanTexts ==
    { <<>>,
      Joined(<<TcNoC>>, Terminators),
      Joined(<<Line1Head \o SerialNo \o <<Filler>> \o TcNoA \o Rep(Filler, 4),
               PadTo(Line2Body, TD1_LINE_LENGTH - 1) \o <<"8">>>>, Terminators),
      Joined(<<PadTo(Line1Head \o SerialNo, MIN_MRZ_LINE + 1),
               PadTo(Line2Body, TD1_LINE_LENGTH - 1) \o <<"8">>,
               PadTo(KAYA \o Rep(Filler, 2) \o ALIX \o <<Filler>> \o VELI, TD1_LINE_LENGTH)>>,
             Terminators) }
\* what parse(mrzLines) may do with them
ScanMrzResults ==
    { NoFields, ParseThrows,
      [kind |-> "fields", givenNames |-> Null, surname |-> Null,
       personalNumber |-> Null, optionalData |-> Null, documentNumber |-> SerialNo],
      [kind |-> "fields", givenNames |-> MERT \o <<" ">> \o VELI, surname |-> OZTURK,
       personalNumber |-> TcNoA \o Rep(Filler, 3), optionalData |-> Null,
       documentNumber |-> SerialNo] }

\* What the owner and the store keep of a field: the flow only tests whether
\* it is truthy.
StoredField(v) == IF Truthy(v) THEN "X" ELSE ""
StoredResults(data) ==
    [present |-> TRUE, name |-> StoredField(data.name),
     surname |-> StoredField(data.surname), tcNo |-> StoredField(data.tcNo)]

\* scanImage returns null, or what parseOCRText returned
ScanNull == [kind |-> "null", text |-> <<>>, data |-> NoScan.data]
ScanData(text, data) == [kind |-> "data", text |-> text, data |-> data]

\* IdentityBackPhoto is mounted
BackMounted == screen = "identity-back"
\* no commit that unmounts the screen is pending
OcrQuiet == ~(BackMounted /\ currentStep # "identity-back")

\* the session when IdentityBackPhoto has just been mounted: the ID front has
\* been captured and its portrait stored, and the effect of useOCR has run
OcrInit ==
    /\ currentStep = "identity-back"
    /\ identityPhoto = 1
    /\ ocrResults = NullOCR
    /\ croppedPortrait \in {[id |-> 1, face |-> f] : f \in PortraitFaces}
    /\ isProcessingGovernmentID = FALSE
    /\ isGovernmentIDComplete = FALSE
    /\ livenessSelfie = NullImg
    /\ isProcessingLiveness = FALSE
    /\ isLivenessComplete = FALSE
    /\ screen = "identity-back"
    /\ lastMessage = "Front photo captured successfully!"
    /\ frontFaceDetected = FALSE
    /\ isFaceDetected = FALSE
    /\ blinkCount = 0
    /\ isReady = FALSE
    /\ animationFrameRef = 0
    /\ wasBlinkingRef = FALSE
    /\ lastBlinkTimeRef = 0
    /\ blinkCountRef = 0
    /\ isComparingRef = FALSE
    /\ rafQueue = {}
    /\ tasks = {[pc |-> "createWorker", worker |-> NoWorker]}
    /\ effSeq = 0
    /\ liveEff = NoEnv
    /\ inst = 0
    /\ now = Epoch
    /\ modelsLoaded = FALSE
    /\ selfieSeq = 0
    /\ photoSeq = 1
    /\ scanSeq = 0
    /\ cmpLog = {}
    /\ sessCompares = 0
    /\ sessReached = FALSE
    /\ sessReset = FALSE
    /\ genuineCount = 0
    /\ lastFaceClosed = FALSE
    /\ spacedOK = TRUE
    /\ prevClosed = FALSE
    /\ lastFrame = NoFrame
    /\ sessFrames = 0
    /\ staleWrite = FALSE
    /\ failedSelfies = {}
    /\ InitialOCR
    /\ call = NoCall
    /\ ret = Pending

\* what the OCR steps leave alone
ocrFrame == <<identityPhoto, croppedPortrait, livenessStore, frontFaceDetected, photoSeq,
              selfieSeq, blinkAll, call, ret>>

\* setIsReady(value): a state update of an unmounted component is dropped
setIsReady(value) == isReady' = IF BackMounted THEN value ELSE isReady

\* lines 28 and 41-44: createWorker settles; it has created a worker, or it
\* throws and the catch block clears isReady
\* (mutated form: the worker is stored and isReady set before setParameters)
CreateWorkerDonePublishes ==
    /\ OcrQuiet
    /\ \E t \in tasks, ok \in BOOLEAN :
         /\ t.pc = "createWorker"
         /\ IF ok THEN
               /\ workers' = Append(workers, "created")
               /\ workerRef' = Len(workers) + 1
               /\ setIsReady(TRUE)
               /\ tasks' = (tasks \ {t}) \cup {[pc |-> "setParameters", worker |-> Len(workers) + 1]}
            ELSE
               /\ setIsReady(FALSE)
               /\ tasks' = tasks \ {t}
               /\ UNCHANGED <<workers, workerRef>>
    /\ UNCHANGED <<currentStep, ocrResults, isProcessingGovernmentID, isGovernmentIDComplete,
                   screen, lastMessage, scanSeq, stages, lastScan, ocrFrame>>

CreateWorkerDone ==
    /\ OcrQuiet
    /\ \E t \in tasks, ok \in BOOLEAN :
         /\ t.pc = "createWorker"
         /\ IF ok THEN
               /\ workers' = Append(workers, "created")
               /\ tasks' = (tasks \ {t}) \cup {[pc |-> "setParameters", worker |-> Len(workers) + 1]}
               /\ UNCHANGED isReady
            ELSE
               /\ setIsReady(FALSE)
               /\ tasks' = tasks \ {t}
               /\ UNCHANGED workers
    /\ UNCHANGED <<currentStep, ocrResults, isProcessingGovernmentID, isGovernmentIDComplete,
                   screen, lastMessage, scanSeq, workerRef, stages, lastScan, ocrFrame>>

\* lines 31-44: setParameters settles; the configured worker is stored in
\* workerRef and isReady is set, or the catch block clears isReady
SetParametersDone ==
    /\ OcrQuiet
    /\ \E t \in tasks, ok \in BOOLEAN :
         /\ t.pc = "setParameters"
         /\ tasks' = tasks \ {t}
         /\ IF ok THEN
               /\ workers' = [workers EXCEPT ![t.worker] = "configured"]
               /\ workerRef' = t.worker
               /\ setIsReady(TRUE)
            ELSE
               /\ setIsReady(FALSE)
               /\ UNCHANGED <<workers, workerRef>>
    /\ UNCHANGED <<currentStep, ocrResults, isProcessingGovernmentID, isGovernmentIDComplete,
                   screen, lastMessage, scanSeq, stages, lastScan, ocrFrame>>

\* line 187: the capture button is disabled while a scan is processing
\* (mutated form: the button is never disabled)
captureDisabledNever == FALSE

captureDisabled == isProcessingGovernmentID

\* scanImage, line 65: the readiness guard
scanImageNotReady == workerRef = NoWorker \/ ~isReady

\* captureAndProcess, lines 86-108: what the owner does with what scanImage
\* returned
HandleScanResult(mrzData) ==
    IF mrzData.kind = "null" THEN
        /\ lastMessage' = "Failed to process ID card. Please try again."
        /\ setProcessingGovernmentID(FALSE)
        /\ UNCHANGED ocrResults
    ELSE
        /\ setOCRResults(StoredResults(mrzData.data))
        /\ lastMessage' = IF ~Truthy(mrzData.data.name) \/ ~Truthy(mrzData.data.surname)
                             \/ ~Truthy(mrzData.data.tcNo)
                          THEN "Could not read ID."
                          ELSE "ID information extracted. Please verify the details below."
        /\ setProcessingGovernmentID(FALSE)

\* captureAndProcess up to the first await inside scanImage (line 72); the
\* capture button is rendered while the stored results are not valid
OcrCapture ==
    /\ OcrQuiet /\ BackMounted
    /\ ~hasValidOCRResults
    /\ ~captureDisabled
    /\ \E shot \in BOOLEAN :
         IF ~isReady THEN
            /\ lastMessage' = "OCR is still initializing. Please wait..."
            /\ UNCHANGED <<ocrResults, isProcessingGovernmentID, scanSeq, tasks, stages, lastScan>>
         ELSE IF ~shot THEN
            /\ lastMessage' = "Failed to capture image. Please try again."
            /\ UNCHANGED <<ocrResults, isProcessingGovernmentID, scanSeq, tasks, stages, lastScan>>
         ELSE IF scanImageNotReady THEN
            /\ scanSeq < MaxScans
            /\ scanSeq' = scanSeq + 1
            /\ HandleScanResult(ScanNull)
            /\ stages' = <<>>
            /\ lastScan' = ScanNull
            /\ UNCHANGED tasks
         ELSE
            /\ scanSeq < MaxScans
            /\ scanSeq' = scanSeq + 1
            /\ setProcessingGovernmentID(TRUE)
            /\ tasks' = tasks \cup {[pc |-> "preprocess", worker |-> NoWorker]}
            /\ stages' = <<"preprocess">>
            /\ UNCHANGED <<lastMessage, ocrResults, lastScan>>
    /\ UNCHANGED <<currentStep, isGovernmentIDComplete, screen, isReady, workerRef, workers,
                   ocrFrame>>

\* scanImage, lines 72-77 and 83-86: what follows the await of
\* preprocessMRZImage: the catch block when it rejected, or when
\* workerRef.current is null by now; otherwise recognize is called
\* (mutated form: a rejected preprocessing is not noticed)
afterPreprocessIgnoresFailure(ok, ref) ==
    IF ref = NoWorker THEN "catch" ELSE "recognize"

afterPreprocess(ok, ref) ==
    IF ~ok THEN "catch" ELSE IF ref = NoWorker THEN "catch" ELSE "recognize"

\* preprocessMRZImage settles
PreprocessDone ==
    /\ OcrQuiet
    /\ \E t \in tasks, ok \in BOOLEAN :
         /\ t.pc = "preprocess"
         /\ IF afterPreprocess(ok, workerRef) = "catch" THEN
               /\ tasks' = tasks \ {t}
               /\ stages' = stages \o <<IF ok THEN "preprocessed" ELSE "preprocess failed">>
               /\ HandleScanResult(ScanNull)
               /\ lastScan' = ScanNull
            ELSE
               /\ tasks' = (tasks \ {t}) \cup {[pc |-> "recognize", worker |-> workerRef]}
               /\ stages' = stages \o <<IF ok THEN "preprocessed" ELSE "preprocess failed",
                                        "recognize">>
               /\ UNCHANGED <<lastMessage, ocrResults, isProcessingGovernmentID, lastScan>>
    /\ UNCHANGED <<currentStep, isGovernmentIDComplete, screen, isReady, scanSeq, workerRef,
                   workers, ocrFrame>>

\* recognize settles: scanImage from line 77 to its return, then
\* captureAndProcess from line 86 to its end
RecognizeDone ==
    /\ OcrQuiet
    /\ \E t \in tasks, ok \in BOOLEAN, text \in ScanTexts, mrzResult \in ScanMrzResults :
         /\ t.pc = "recognize"
         /\ tasks' = tasks \ {t}
         /\ IF ~ok THEN
               /\ stages' = stages \o <<"recognize failed">>
               /\ HandleScanResult(ScanNull)
               /\ lastScan' = ScanNull
            ELSE
               LET parsedData == parseOCRText(text, mrzResult).data
               IN  /\ stages' = stages \o <<"recognized", "parse">>
                   /\ HandleScanResult(ScanData(text, parsedData))
                   /\ lastScan' = ScanData(text, parsedData)
    /\ UNCHANGED <<currentStep, isGovernmentIDComplete, screen, isReady, scanSeq, workerRef,
                   workers, ocrFrame>>

\* handleRetry; the button is rendered while the stored results are valid
OcrRetry ==
    /\ OcrQuiet /\ BackMounted
    /\ RetryRendered
    /\ setOCRResults(NullOCR)
    /\ lastMessage' = "Please take a new photo of the ID card back."
    /\ UNCHANGED <<currentStep, isProcessingGovernmentID, isGovernmentIDComplete, screen,
                   isReady, scanSeq, tasks, ocrVars, ocrFrame>>

\* handleConfirm; the button is rendered while the stored results are valid
OcrConfirm ==
    /\ OcrQuiet /\ BackMounted
    /\ hasValidOCRResults
    /\ completeGovernmentID
    /\ lastMessage' = "ID information confirmed successfully!"
    /\ setCurrentStep("start")
    /\ UNCHANGED <<ocrResults, screen, isReady, scanSeq, tasks, ocrVars, ocrFrame>>

\* lines 50-56: the cleanup of the effect terminates the worker that
\* workerRef holds, if it holds one
cleanupTerminates(ref) == ref # NoWorker

\* React unmounts IdentityBackPhoto and runs the cleanup of the effect:
\* currentStep has left identity-back (App), or an error boundary above the
\* screen has caught an error thrown while rendering (ErrorBoundary, which
\* replaces its children by the fallback).  The state of the hook is gone.
OwnerUnmounts ==
    /\ BackMounted
    /\ screen' = IF currentStep # "identity-back" THEN currentStep ELSE "error"
    /\ workers' = IF cleanupTerminates(workerRef)
                  THEN [workers EXCEPT ![workerRef] = "terminated"] ELSE workers
    /\ workerRef' = NoWorker
    /\ isReady' = FALSE
    /\ UNCHANGED <<currentStep, ocrResults, isProcessingGovernmentID, isGovernmentIDComplete,
                   lastMessage, scanSeq, tasks, stages, lastScan, ocrFrame>>

OcrNext ==
    \/ CreateWorkerDone
    \/ SetParametersDone
    \/ OcrCapture
    \/ PreprocessDone
    \/ RecognizeDone
    \/ OcrRetry
    \/ OcrConfirm
    \/ OwnerUnmounts

OcrSpec == OcrInit /\ [][OcrNext]_vars

\* ------------------------------------------------------------------------
\* Properties
\* ------------------------------------------------------------------------
\* the calls of the blink loop that are suspended or in their comparison block
BlinkTasks == {t \in tasks : t.pc \in {"detect", "gate", "compare"}}
ComparisonInFlight == \E t \in tasks : t.pc = "compare"
\* a compareFaces call is made in this step
CompareStarts == \E t \in tasks' : t.pc = "compare" /\ t \notin tasks
\* a compareFaces call settles in this step
CompareSettles == \E t \in tasks : t.pc = "compare" /\ t \notin tasks'
\* a frame is handed to the landmark-detection capability in this step
DetectStarts == \E t \in tasks' : t.pc = "detect" /\ t \notin tasks
\* a frame is processed (the tick passes line 69) in this step
FrameProcessed == sessFrames' = sessFrames + 1

\* C1: isLivenessComplete holds only if compareFaces, called on the stored ID
\* portrait and the stored liveness selfie, returned a distance strictly below
\* FACE_MATCH_THRESHOLD.
C1_CompleteOnlyByMatch ==
    isLivenessComplete =>
        \E c \in cmpLog : /\ c.portrait = croppedPortrait
                          /\ c.selfie = livenessSelfie
                          /\ c.isMatch
                          /\ c.distance < FACE_MATCH_THRESHOLD

C1_Witness ==
    /\ isLivenessComplete
    /\ currentStep = "start"
    /\ \E c \in cmpLog : c.portrait = croppedPortrait /\ c.selfie = livenessSelfie

\* C2: compareFaces is called only in the run that counted a blink bringing
\* blinkCount to at least REQUIRED_BLINKS, and only with both stored images
\* present; the images passed are the stored ones.
C2_CompareOnlyWhenGated ==
    [][\A t \in tasks' :
          (t.pc = "compare" /\ t \notin tasks) =>
              /\ blinkCountRef >= REQUIRED_BLINKS
              /\ sessReached
              /\ croppedPortrait # NullImg /\ livenessSelfie # NullImg
              /\ t.env.portrait = croppedPortrait /\ t.env.selfie = livenessSelfie]_vars

C2_Witness ==
    /\ ComparisonInFlight
    /\ isProcessingLiveness

\* C3: a processed frame increases blinkCount by exactly 1 and sets
\* lastBlinkTimestamp to now iff the previous processed frame was eyes-closed,
\* this frame is not, and now - lastBlinkTimestamp > BLINK_DEBOUNCE_MS;
\* otherwise both are unchanged.
C3_CountOnOpeningEdge ==
    [][FrameProcessed =>
          IF prevClosed /\ ~lastFrame'.blinkDetected
             /\ now - lastBlinkTimeRef > BLINK_DEBOUNCE_MS
          THEN blinkCountRef' = blinkCountRef + 1 /\ lastBlinkTimeRef' = now
          ELSE blinkCountRef' = blinkCountRef /\ lastBlinkTimeRef' = lastBlinkTimeRef]_vars

\* two closed-to-open edges were seen, the second inside the debounce window
\* of the first: one blink is counted
C3_Witness ==
    /\ screen = "liveness-blink" /\ ~sessReset
    /\ genuineCount = 2 /\ ~spacedOK
    /\ blinkCountRef = 1
    /\ now - lastBlinkTimeRef > BLINK_DEBOUNCE_MS

\* C4 (as claimed): while the session has not been reset, if every
\* closed-to-open transition among the frames with a face came more than the
\* debounce after the last counted blink, and there are N <= REQUIRED_BLINKS of
\* them, then blinkCount = N, whatever no-face frames came in between.
C4_CountEqualsTransitions ==
    (screen = "liveness-blink" /\ ~sessReset /\ spacedOK /\ genuineCount <= REQUIRED_BLINKS)
        => blinkCountRef = genuineCount

\* C5 (as claimed): a session that has counted its REQUIRED_BLINKS-th blink
\* has started exactly one comparison.
C5_ExactlyOneComparison ==
    (sessReached /\ ~InGate) => sessCompares = 1

\* C5 (amended): a session that has counted its REQUIRED_BLINKS-th blink has
\* started one comparison if both images are stored and none otherwise; a
\* comparison starts only in the run that counted that blink; afterwards no
\* frame is handed to detection or processed, no blink is counted and no
\* second comparison starts, for as long as the component stays mounted.
C5_TerminalOnceReached ==
    [][/\ (sessReached' /\ ~InGate') =>
              sessCompares' = (IF croppedPortrait' # NullImg /\ livenessSelfie' # NullImg
                               THEN 1 ELSE 0)
       /\ sessCompares' <= 1
       /\ CompareStarts => (InGate /\ blinkCountRef = REQUIRED_BLINKS /\ sessCompares = 0)
       /\ sessReached =>
              /\ ~DetectStarts
              /\ ~FrameProcessed
              /\ blinkCountRef' <= blinkCountRef]_vars

C5_Witness ==
    /\ sessReached /\ sessCompares = 1
    /\ ComparisonInFlight
    /\ liveEff.proc /\ rafQueue = {}
    /\ now - lastBlinkTimeRef >= 200

\* C6: from the start of a comparison until its result is handled, no frame is
\* handed to the landmark-detection capability, no detectBlinkInFrame call is
\* outstanding, and no animation-frame tick changes blinkCount, wasEyesClosed
\* or lastBlinkTimestamp.
C6_NoDetectionWhileComparing ==
    [][ComparisonInFlight =>
          /\ ~DetectStarts
          /\ \A t \in tasks : t.pc # "detect"
          /\ ~FrameProcessed
          /\ now' # now => UNCHANGED <<blinkCountRef, blinkCount, wasBlinkingRef,
                                       lastBlinkTimeRef>>]_vars

\* the comparison is pending, the effect has re-run (its cleanup cleared the
\* isComparing guard) and the tick scheduled by the re-run has fired
C6_Witness ==
    /\ ComparisonInFlight
    /\ liveEff.proc /\ ~isComparingRef
    /\ rafQueue = {}
    /\ effSeq >= 2

\* C7 (as claimed): at most one tick or comparison is in flight, and no
\* animation frame is requested for detectBlink while a tick or a comparison is
\* pending.
C7_NoTickScheduledWhilePending ==
    /\ Cardinality(BlinkTasks) <= 1
    /\ rafQueue # {} => BlinkTasks = {}

\* C8 (as claimed): code of a cancelled loop requests no animation frame and
\* does not write blinkCount, wasEyesClosed or lastBlinkTimestamp.
C8_CancelledLoopIsSilent ==
    /\ \A r \in rafQueue : IsMounted(r.env)
    /\ ~staleWrite

\* C9: a comparison that returns isMatch = false resets blinkCount to 0, clears
\* isProcessingLiveness, leaves isLivenessComplete false and sets currentStep
\* to liveness-front; a blink session is entered, and a frame is handed to
\* detection, only with a stored selfie that no comparison has rejected.
C9_NoMatchReturnsToSelfie ==
    [][/\ (CompareSettles /\ lastMessage' = MsgNoMatch) =>
              /\ blinkCountRef' = 0 /\ blinkCount' = 0
              /\ ~isProcessingLiveness'
              /\ ~isLivenessComplete'
              /\ currentStep' = "liveness-front"
       /\ (screen' = "liveness-blink" /\ screen # "liveness-blink") =>
              (livenessSelfie' # NullImg /\ livenessSelfie'.id \notin failedSelfies')
       /\ \A t \in tasks' : t.pc = "detect" =>
              (t.env.selfie = livenessSelfie' /\ t.env.selfie.id \notin failedSelfies')]_vars

\* a second blink session is processing a frame after a first selfie was
\* rejected as a non-match
C9_Witness ==
    /\ \E c \in cmpLog : ~c.isMatch /\ c.selfie.id \in failedSelfies
    /\ \E t \in tasks : t.pc = "detect"
    /\ livenessSelfie.id = 2

\* C10: when the descriptor extraction finds no face in the ID portrait or in
\* the selfie, the comparison produces no distance and no isMatch; the attempt
\* ends with isLivenessComplete unchanged, blinkCount 0, isProcessingLiveness
\* cleared and currentStep liveness-front, and is reported as a failure, not as
\* a non-match.
C10_NoFaceIsFailure ==
    [][\A t \in tasks :
          (t.pc = "compare" /\ t \notin tasks'
             /\ (t.env.portrait.face = NoFace \/ t.env.selfie.face = NoFace)) =>
              /\ cmpLog' = cmpLog
              /\ isLivenessComplete' = isLivenessComplete /\ ~isLivenessComplete'
              /\ blinkCountRef' = 0 /\ blinkCount' = 0
              /\ ~isProcessingLiveness'
              /\ currentStep' = "liveness-front"
              /\ lastMessage' = MsgFailed]_vars

C10_Witness ==
    /\ lastMessage = MsgFailed
    /\ modelsLoaded
    /\ croppedPortrait # NullImg /\ livenessSelfie # NullImg
    /\ croppedPortrait.face # NoFace /\ livenessSelfie.face = NoFace

\* C11: compareFaces returns isMatch = true exactly when the distance between
\* the two descriptors is strictly below the threshold; a distance equal to
\* the threshold is not a match; distance 40 matches at threshold 55 and not
\* at threshold 30; and whenever the same images match at a lower threshold
\* they match at the threshold of the call.
C11_MatchIffStrictlyBelow ==
    (call.fn = "compareFaces" /\ ret # Pending /\ ret.kind = "ok") =>
        /\ ret.distance = euclideanDistance(Descriptors[call.image1], Descriptors[call.image2])
        /\ ret.isMatch <=> ret.distance < call.threshold
        /\ ret.distance = call.threshold => ~ret.isMatch
        /\ (ret.distance = 40 /\ call.threshold = 55) => ret.isMatch
        /\ (ret.distance = 40 /\ call.threshold = 30) => ~ret.isMatch
        /\ \A lower \in Thresholds :
              LET other == compareFaces([id |-> 1, face |-> call.image1],
                                        [id |-> 1, face |-> call.image2],
                                        lower, call.loaded, call.loadOutcome, call.imagesLoad)
              IN  (lower <= call.threshold /\ other.isMatch) => ret.isMatch

\* two faces at distance 55 compared at threshold 55: no match
C11_Witness ==
    /\ call.fn = "compareFaces" /\ ret # Pending /\ ret.kind = "ok"
    /\ ret.distance = FACE_MATCH_THRESHOLD /\ call.threshold = FACE_MATCH_THRESHOLD
    /\ ~ret.isMatch

\* parseOCRText has been applied
Parsed == call.fn = "parseOCRText" /\ ret # Pending
\* the trimmed lines of the text that are longer than 20 characters and made
\* of A-Z, 0-9 and '<' only
CandidateCount(text) ==
    LET raw == splitAt(text, LineBreaks)
    IN  Cardinality({i \in 1..Len(raw) :
                        Len(trim(raw[i])) > 20 /\ AllIn(trim(raw[i]), MrzAlphabet)})
\* a string of exactly 11 decimal digits
ElevenDigits(v) == Len(v) = 11 /\ \A i \in 1..Len(v) : v[i] \in Digit
\* the text holds a run of 11 digits
HasDigitRun(text) ==
    \E i \in 1..(Len(text) - 10) : \A k \in 0..10 : text[i + k] \in Digit
\* the structured parse has run: the parser was called and did not throw
StructuredRan == Parsed /\ CandidateCount(call.text) >= 2 /\ call.mrzResult.kind # "throws"
\* what the structured parse stored, before the fallbacks
AfterStructured == structuredParse(emptyParsedData(call.text), call.mrzResult)

\* C16: parseOCRText never raises, whether the MRZ parser returns fields,
\* returns none or throws; the value it returns has rawText equal to the input
\* text, and a field is defined only if a step that extracts it has run: any
\* field only with two candidate lines or more, name and surname only if the
\* parser did not throw and returned the field or a third line exists, tcNo
\* only from a number field of the parser or from a run of 11 digits in the
\* text.
C16_NeverRaises ==
    Parsed =>
        /\ ~ret.threw
        /\ ret.data.rawText = call.text
        /\ \A f \in {"name", "surname", "tcNo"} : ret.data[f] # Null
        /\ CandidateCount(call.text) < 2 =>
              \A f \in {"name", "surname", "tcNo"} : ret.data[f] = Undefined
        /\ ret.data.name # Undefined =>
              /\ call.mrzResult.kind # "throws"
              /\ \/ call.mrzResult.kind = "fields" /\ call.mrzResult.givenNames # Null
                 \/ CandidateCount(call.text) >= 3
        /\ ret.data.surname # Undefined =>
              /\ call.mrzResult.kind # "throws"
              /\ \/ call.mrzResult.kind = "fields" /\ call.mrzResult.surname # Null
                 \/ CandidateCount(call.text) >= 3
        /\ ret.data.tcNo # Undefined =>
              \/ /\ call.mrzResult.kind = "fields"
                 /\ \E n \in {call.mrzResult.personalNumber, call.mrzResult.optionalData,
                              call.mrzResult.documentNumber} :
                       n # Null /\ ret.data.tcNo = StripFillers(n)
              \/ HasDigitRun(call.text)

\* the MRZ parser threw on three candidate lines: the text scan still found
\* the national ID number and nothing else is defined
C16_Witness ==
    /\ Parsed /\ call.mrzResult.kind = "throws"
    /\ CandidateCount(call.text) >= 3
    /\ ret.data.tcNo # Undefined
    /\ ret.data.name = Undefined /\ ret.data.surname = Undefined

\* C17: a defined tcNo is exactly 11 characters long, all decimal digits.
C17_TcNoIsElevenDigits ==
    Parsed => (ret.data.tcNo # Undefined => ElevenDigits(ret.data.tcNo))

\* the personal number was 11 digits followed by fillers and was taken
\* without them
C17_Witness ==
    /\ Parsed /\ call.mrzResult.kind = "fields"
    /\ call.mrzResult.personalNumber # Null
    /\ ret.data.tcNo # call.mrzResult.personalNumber
    /\ ret.data.tcNo = StripFillers(call.mrzResult.personalNumber)

\* C18 (as claimed): a name or surname that the structured parse set is
\* returned as it was set, whatever the third line contains.
C18_FallbackKeepsSetFields ==
    StructuredRan =>
        /\ AfterStructured.surname # Undefined => ret.data.surname = AfterStructured.surname
        /\ AfterStructured.name # Undefined => ret.data.name = AfterStructured.name

\* C18 (amended): a name or surname that the structured parse set to a
\* non-empty string is returned as it was set, whatever the third line
\* contains; the returned value differs from what the structured parse left
\* only for a field it left undefined or empty, and then it is a run of 4 to
\* 15 uppercase letters taken from the third line.
C18_FallbackKeepsNonEmptyFields ==
    StructuredRan =>
        \A f \in {"name", "surname"} :
            /\ (AfterStructured[f] # Undefined /\ AfterStructured[f] # <<>>) =>
                  ret.data[f] = AfterStructured[f]
            /\ ret.data[f] # AfterStructured[f] =>
                  /\ AfterStructured[f] \in {Undefined, <<>>}
                  /\ CandidateCount(call.text) >= 3
                  /\ Len(ret.data[f]) >= 4 /\ Len(ret.data[f]) <= 15
                  /\ \A i \in 1..Len(ret.data[f]) : ret.data[f][i] \in Upper

\* the structured parse set the surname and not the name; the third line
\* carries both; the surname is the structured one and the name the third
\* line's
C18_Witness ==
    /\ StructuredRan /\ call.mrzResult.kind = "fields"
    /\ AfterStructured.surname = OZTURK /\ AfterStructured.name = Undefined
    /\ ret.data.surname = OZTURK
    /\ ret.data.name = ALIX

\* normalizeLine has been applied
Normalized == call.fn = "normalizeLine" /\ ret # Pending

\* C19: normalization maps a candidate line to exactly 30 characters of A-Z,
\* 0-9 and '<': the first 30 characters of a longer line, a shorter line
\* followed by fillers, a line of 30 characters unchanged; normalizing the
\* result again changes nothing.
C19_NormalizedToThirty ==
    Normalized =>
        LET n == Len(call.line)
        IN  /\ Len(ret.line) = 30
            /\ \A i \in 1..30 : ret.line[i] \in Upper \cup Digit \cup {"<"}
            /\ n > 30 => \A i \in 1..30 : ret.line[i] = call.line[i]
            /\ n < 30 => /\ \A i \in 1..n : ret.line[i] = call.line[i]
                         /\ \A i \in (n + 1)..30 : ret.line[i] = "<"
            /\ n = 30 => ret.line = call.line
            /\ normalizeLine(ret.line) = ret.line

\* a candidate line of more than 30 characters lost its tail
C19_Witness ==
    /\ Normalized
    /\ Len(call.line) > 30
    /\ ret.line # call.line
    /\ call.line[31] \in Upper

\* C20: for a text with no candidate line (no line that, trimmed, is longer
\* than 20 characters and made only of A-Z, 0-9 and '<'), parseOCRText returns
\* name, surname and tcNo undefined and rawText equal to the input.
C20_NoCandidateNoFields ==
    (Parsed /\ CandidateCount(call.text) = 0) =>
        /\ ~ret.threw
        /\ ret.data.name = Undefined
        /\ ret.data.surname = Undefined
        /\ ret.data.tcNo = Undefined
        /\ ret.data.rawText = call.text

\* a text with a run of 11 digits in a short line and a long line that is no
\* candidate, while the parser would have returned every field
C20_Witness ==
    /\ Parsed /\ CandidateCount(call.text) = 0
    /\ HasDigitRun(call.text)
    /\ Len(splitAt(call.text, LineBreaks)) >= 3
    /\ call.mrzResult.kind = "fields"
    /\ call.mrzResult.givenNames # Null /\ call.mrzResult.surname # Null
    /\ ret.data.tcNo = Undefined

\* the first run of 11 digits of a text that holds one
FirstDigitRun(text) ==
    LET starts == {i \in 1..(Len(text) - 10) : \A k \in 0..10 : text[i + k] \in Digit}
        first == CHOOSE i \in starts : \A j \in starts : i <= j
    IN  [k \in 1..11 |-> text[first + k - 1]]
\* the national ID number is missing once the structured parse is over or has
\* been skipped
TcNoStillMissing ==
    IF StructuredRan THEN AfterStructured.tcNo \in {Undefined, <<>>} ELSE TRUE
\* what the search of the raw text, then of line 1, yields
DigitSearch(text) ==
    IF HasDigitRun(text) THEN FirstDigitRun(text)
    ELSE IF CandidateCount(text) >= 1 /\ HasDigitRun(mrzLinesOf(text)[1])
         THEN FirstDigitRun(mrzLinesOf(text)[1])
    ELSE Undefined

\* C21 (as claimed): whenever the national ID number is missing after the
\* structured parse, the returned tcNo is the first run of 11 digits of the
\* raw text if there is one, otherwise the run found in normalized line 1,
\* for every input, whatever the number of candidate lines.
C21_DigitSearchOnEveryInput ==
    (Parsed /\ TcNoStillMissing) => ret.data.tcNo = DigitSearch(call.text)

\* C21 (amended): with two candidate lines or more, whenever the national ID
\* number is missing after the structured parse (or the parser threw), the
\* returned tcNo is the first run of 11 digits of the raw text if there is
\* one and undefined otherwise; a run of normalized line 1 is a run of the
\* raw text, so the search of line 1 never finds one the raw text lacks.
\* With fewer than two candidate lines nothing is searched and tcNo is
\* undefined.
C21_DigitSearchWithTwoLines ==
    Parsed =>
        /\ (CandidateCount(call.text) >= 2 /\ TcNoStillMissing) =>
              /\ ret.data.tcNo = (IF HasDigitRun(call.text) THEN FirstDigitRun(call.text)
                                  ELSE Undefined)
              /\ HasDigitRun(mrzLinesOf(call.text)[1]) => HasDigitRun(call.text)
        /\ CandidateCount(call.text) < 2 => ret.data.tcNo = Undefined

\* the parser returned no number; the raw text holds a run of 11 digits in a
\* line before the first candidate line, which holds another: the first one
\* is returned
C21_Witness ==
    /\ StructuredRan /\ call.mrzResult.kind = "fields"
    /\ AfterStructured.tcNo = Undefined
    /\ HasDigitRun(mrzLinesOf(call.text)[1])
    /\ FirstDigitRun(mrzLinesOf(call.text)[1]) # FirstDigitRun(call.text)
    /\ ret.data.tcNo = FirstDigitRun(call.text)

\* a scanImage call settles in this step
ScanSettles == \E t \in tasks : t.pc = "scan" /\ t \notin tasks'
\* an extractFaceFromID call settles in this step
PortraitSettles == \E t \in tasks : t.pc = "portrait" /\ t \notin tasks'
\* an extractFaceFromSelfie call settles in this step
SelfieSettles == \E t \in tasks : t.pc = "selfie" /\ t \notin tasks'
\* the comparison block of LivenessBlink ends in this step without a call
GateRejects == InGate /\ ~InGate' /\ ~ComparisonInFlight'
\* the stored OCR results carry a name, a surname and a national ID number
AllFieldsRead(results) ==
    results.present /\ results.name # "" /\ results.surname # "" /\ results.tcNo # ""

\* C12: the ID stage is completed only by a step taken on the ID-back screen
\* while the stored OCR results have non-empty name, surname and tcNo, and
\* that step moves to start; the handling of a scan result never changes
\* currentStep; hence isGovernmentIDComplete implies that ocrResults is
\* non-null with all three fields non-empty.
C12_ConfirmNeedsAllFields ==
    [][/\ (isGovernmentIDComplete' /\ ~isGovernmentIDComplete) =>
              /\ screen = "identity-back" /\ currentStep = "identity-back"
              /\ AllFieldsRead(ocrResults)
              /\ ocrResults' = ocrResults
              /\ currentStep' = "start"
       /\ ScanSettles => currentStep' = currentStep
       /\ isGovernmentIDComplete' => AllFieldsRead(ocrResults')]_vars

\* the ID stage was confirmed after a first scan that had to be repeated
C12_Witness ==
    /\ isGovernmentIDComplete /\ currentStep = "start"
    /\ AllFieldsRead(ocrResults)
    /\ scanSeq = 2

\* C13 (as claimed): the flow enforces no ordering between the two stages, so
\* liveness can be completed while the ID stage is not.  Every completion of
\* liveness goes through a comparison; for a liveness attempt made before the
\* ID stage is complete to be able to succeed, the blink session that reaches
\* the required count with a selfie stored must go on to the comparison rather
\* than be turned away.
C13_NoOrderingEnforced ==
    [][(InGate /\ ~InGate' /\ ~isGovernmentIDComplete /\ livenessSelfie # NullImg)
          => ComparisonInFlight']_vars

\* C14: currentStep leaves start only to identity-front or liveness-front;
\* becomes identity-back only from identity-front, in the step that stores
\* the cropped portrait; becomes liveness-blink only from liveness-front, in
\* the step that stores the selfie; and returns to start only on confirm at
\* identity-back or on a match at liveness-blink.
C14_SubStepsOrdered ==
    [][currentStep' # currentStep =>
          /\ currentStep = "start" => currentStep' \in {"identity-front", "liveness-front"}
          /\ currentStep' = "identity-back" =>
                /\ currentStep = "identity-front"
                /\ PortraitSettles
                /\ croppedPortrait' # NullImg /\ croppedPortrait'.id = identityPhoto
          /\ currentStep' = "liveness-blink" =>
                /\ currentStep = "liveness-front"
                /\ SelfieSettles
                /\ livenessSelfie' # NullImg /\ livenessSelfie' # livenessSelfie
          /\ currentStep' = "start" =>
                \/ /\ currentStep = "identity-back"
                   /\ isGovernmentIDComplete' /\ ~isGovernmentIDComplete
                   /\ tasks' = tasks
                \/ /\ currentStep = "liveness-blink"
                   /\ isLivenessComplete' /\ ~isLivenessComplete
                   /\ CompareSettles
                   /\ \E c \in cmpLog' : c.isMatch /\ c.selfie = livenessSelfie]_vars

\* both stages have been walked through in order and both are complete
C14_Witness ==
    /\ isGovernmentIDComplete /\ isLivenessComplete
    /\ currentStep = "start" /\ screen = "start"
    /\ croppedPortrait # NullImg /\ livenessSelfie # NullImg

\* the capture button of the step is rendered and not disabled by a
\* processing flag (on the selfie screen it also waits for the first
\* checkFace after the screen is mounted)
CaptureOffered(step) ==
    CASE step = "identity-front" -> ~isProcessingGovernmentID'
      [] step = "identity-back" -> ~isProcessingGovernmentID' /\ ~AllFieldsRead(ocrResults')
      [] step = "liveness-front" -> ~isProcessingLiveness'
      [] OTHER -> FALSE

SomeFieldRead(data) == \E f \in {"name", "surname", "tcNo"} : Truthy(data[f])

\* C22 (as claimed): a scan whose recognized text yields no MRZ line, or no
\* usable identity field at all, hands null to its caller; so whatever the
\* caller receives that is not null comes from a text with a candidate line
\* and carries a usable field, and it is only such a result that the caller
\* stores.
C22_OnlyTotalFailureIsNull ==
    /\ lastScan.kind = "data" =>
          /\ CandidateCount(lastScan.text) >= 1
          /\ SomeFieldRead(lastScan.data)
    /\ ocrResults.present =>
          (ocrResults.name # "" \/ ocrResults.surname # "" \/ ocrResults.tcNo # "")

\* the calls of a scan that are suspended
ScanTasks == {t \in tasks : t.pc \in {"preprocess", "recognize"}}
\* the orders in which the stages of one scan may be gone through
StageOrders ==
    { <<>>,
      <<"preprocess">>,
      <<"preprocess", "preprocess failed">>,
      <<"preprocess", "preprocessed">>,
      <<"preprocess", "preprocessed", "recognize">>,
      <<"preprocess", "preprocessed", "recognize", "recognize failed">>,
      <<"preprocess", "preprocessed", "recognize", "recognized", "parse">> }

\* C23: within one scan the stages run in sequence and never overlap:
\* recognition starts only in the step in which preprocessing has completed,
\* parsing only in the step in which recognition has returned its text; after
\* a stage that failed no later stage runs and null is returned; at most one
\* stage is pending, and it is the last one started.
C23_StagesInSequence ==
    /\ stages \in StageOrders
    /\ Cardinality(ScanTasks) <= 1
    /\ \A t \in ScanTasks : stages # <<>> /\ stages[Len(stages)] = t.pc
    /\ (stages # <<>> /\ stages[Len(stages)] \in {"preprocess", "recognize"}) => ScanTasks # {}
    /\ (stages # <<>> /\ stages[Len(stages)] \in {"preprocess failed", "recognize failed"}) =>
          lastScan.kind = "null"
    /\ (stages # <<>> /\ stages[Len(stages)] = "parse") => lastScan.kind = "data"

\* the second scan of the screen went through its three stages and read a
\* text that does not give every field
C23_Witness ==
    /\ scanSeq = 2
    /\ stages = <<"preprocess", "preprocessed", "recognize", "recognized", "parse">>
    /\ lastScan.kind = "data"
    /\ lastMessage = "Could not read ID."

\* the recognize calls that have not settled
RecognizeInFlight == {t \in tasks : t.pc = "recognize"}
\* a scan is started in this step
ScanStarts == \E t \in tasks' : t.pc = "preprocess" /\ t \notin tasks

\* C24: at most one recognize call is in flight at any time, and at most one
\* scan: a scan is started only while isProcessingGovernmentID is false and
\* no scan is pending, and isProcessingGovernmentID is true for as long as a
\* scan is pending.
C24_OneRecognizeAtATime ==
    [][/\ Cardinality(RecognizeInFlight') <= 1
       /\ Cardinality(ScanTasks') <= 1
       /\ ScanStarts => (~isProcessingGovernmentID /\ ScanTasks = {})
       /\ ScanTasks' # {} => isProcessingGovernmentID']_vars

\* a second scan is recognizing; the first one has settled
C24_Witness ==
    /\ scanSeq = 2
    /\ RecognizeInFlight # {}
    /\ isProcessingGovernmentID
    /\ lastScan.kind # "none"

\* a recognize call is made in this step
RecognizeStarts == \E t \in tasks' : t.pc = "recognize" /\ t \notin tasks
\* initWorker is suspended in createWorker or in setParameters
InitPending == \E t \in tasks : t.pc \in {"createWorker", "setParameters"}
\* the worker has been created and configured
Configured(w) == w # NoWorker /\ workers[w] = "configured"

\* C25: recognize is called only on a worker that has been created and
\* configured; a scan is started (preprocessing, then recognition) only while
\* the hook is ready, so a capture requested earlier starts none; the hook is
\* ready only once workerRef holds a configured worker, hence never while the
\* initialization is pending and never after it has failed.
C25_InitializedBeforeUse ==
    [][/\ \A t \in tasks' : (t.pc = "recognize" /\ t \notin tasks) => Configured(t.worker)
       /\ ScanStarts => (isReady /\ Configured(workerRef))
       /\ ~isReady => (~ScanStarts /\ ~RecognizeStarts)
       /\ isReady' => (Configured(workerRef)' /\ ~InitPending')
       /\ (InitPending /\ ~InitPending' /\ workerRef' = NoWorker) => ~isReady']_vars

\* setParameters has failed on the worker that was created; a capture was
\* requested and answered by the advice to wait
C25_Witness ==
    /\ BackMounted /\ ~InitPending
    /\ workers = <<"created">> /\ workerRef = NoWorker
    /\ ~isReady
    /\ lastMessage = "OCR is still initializing. Please wait..."
    /\ stages = <<>> /\ tasks = {}

\* C26 (as claimed): however the initialization of the worker interleaves
\* with the unmount of the owner, once the owner is unmounted and the
\* initialization has settled every worker that was created has been
\* terminated; and recognize is never called on a terminated worker.
C26_WorkerReleased ==
    [][/\ (~BackMounted' /\ ~InitPending') =>
              \A w \in 1..Len(workers') : workers'[w] = "terminated"
       /\ \A t \in tasks' : (t.pc = "recognize" /\ t \notin tasks) =>
              workers'[t.worker] # "terminated"]_vars

MsgMissing == "Missing face images for comparison"

\* C27: when the required blink count is reached while croppedPortrait or
\* livenessSelfie is null, the comparison block ends at once, before anything
\* else runs, without a compareFaces call: blinkCount is reset to 0,
\* isProcessingLiveness is false, isLivenessComplete is unchanged and
\* currentStep becomes liveness-front.
C27_MissingImageFailsAtOnce ==
    [][/\ InGate => ~InGate'
       /\ (InGate /\ (croppedPortrait = NullImg \/ livenessSelfie = NullImg)) =>
              /\ ~CompareStarts /\ ~ComparisonInFlight'
              /\ sessCompares' = sessCompares
              /\ blinkCountRef' = 0 /\ blinkCount' = 0
              /\ ~isProcessingLiveness'
              /\ isLivenessComplete' = isLivenessComplete
              /\ currentStep' = "liveness-front"
              /\ lastMessage' = MsgMissing]_vars

\* the blink session of a selfie taken before any ID portrait was stored has
\* counted its blinks and has been sent back to the selfie screen
C27_Witness ==
    /\ lastMessage = MsgMissing
    /\ croppedPortrait = NullImg /\ livenessSelfie # NullImg
    /\ currentStep = "liveness-front" /\ screen = "liveness-blink"
    /\ blinkCountRef = 0 /\ blinkCount = 0
    /\ ~isProcessingLiveness /\ ~isLivenessComplete
    /\ sessReached /\ sessCompares = 0

\* preprocessMRZImage has been applied and has resolved
Preprocessed == call.fn = "preprocessMRZImage" /\ ret # Pending /\ ret.kind = "ok"
\* the pixels of an image
PixelsOf(data) == 1..(Len(data) \div 4)
\* a thousand times the luminance 0.299 R + 0.587 G + 0.114 B of pixel p
Luminance1000(data, p) ==
    299 * data[4 * p - 3] + 587 * data[4 * p - 2] + 114 * data[4 * p - 1]
\* R, G and B of pixel p all have the value v
AllThree(data, p, v) == data[4 * p - 3] = v /\ data[4 * p - 2] = v /\ data[4 * p - 1] = v

\* C28 (as claimed): for every pixel, R, G and B of the output are all 255
\* if the luminance 0.299 R + 0.587 G + 0.114 B of the pixel is strictly
\* greater than 110 and all 0 otherwise, so a pixel exactly at the threshold
\* becomes black; the alpha channel is left as it was.
C28_TwoLevelAtThreshold ==
    Preprocessed =>
        /\ Len(ret.data) = Len(call.data)
        /\ \A p \in PixelsOf(call.data) :
              /\ AllThree(ret.data, p, IF Luminance1000(call.data, p) > 110000 THEN 255 ELSE 0)
              /\ ret.data[4 * p] = call.data[4 * p]

\* C28 (amended): for every pixel, R, G and B of the output are all 255 or
\* all 0 and the alpha channel is left as it was; they are 255 if the
\* luminance is strictly greater than 110 and 0 if it is strictly less; a
\* pixel whose luminance is exactly 110 becomes black, except R = 207,
\* G = 67, B = 77, for which the double-precision sum is above 110 and which
\* becomes white.
C28_TwoLevelUpToRounding ==
    Preprocessed =>
        /\ Len(ret.data) = Len(call.data)
        /\ \A p \in PixelsOf(call.data) :
              LET lum == Luminance1000(call.data, p)
                  rounded == /\ call.data[4 * p - 3] = 207
                             /\ call.data[4 * p - 2] = 67
                             /\ call.data[4 * p - 1] = 77
              IN  /\ AllThree(ret.data, p, 255) \/ AllThree(ret.data, p, 0)
                  /\ ret.data[4 * p] = call.data[4 * p]
                  /\ lum > 110000 => AllThree(ret.data, p, 255)
                  /\ lum < 110000 => AllThree(ret.data, p, 0)
                  /\ (lum = 110000 /\ ~rounded) => AllThree(ret.data, p, 0)
                  /\ (lum = 110000 /\ rounded) => AllThree(ret.data, p, 255)

\* a grey pixel exactly at the threshold, half transparent, has become black
\* and has kept its alpha, next to a pixel just above it that has become white
C28_Witness ==
    /\ Preprocessed
    /\ call.data = <<110, 110, 110, 200, 110, 111, 110, 200>>
    /\ ret.data = <<0, 0, 0, 200, 255, 255, 255, 200>>

\* C29 (as claimed): a tick on whose frame no face is detected neither
\* increments nor resets the blink count, whatever the remembered eyes-closed
\* state: blinkCountRef and the displayed blinkCount are left as they were.
C29_NoFaceFrameIgnored ==
    [][(FrameProcessed /\ ~lastFrame'.faceDetected)
          => (blinkCountRef' = blinkCountRef /\ blinkCount' = blinkCount)]_vars

\* the ticks of the running loop: its callbacks requested and not yet run,
\* and its calls suspended in detectBlinkInFrame
LoopTicks ==
    Cardinality({r \in rafQueue : IsMounted(r.env)})
    + Cardinality({t \in tasks : t.pc = "detect" /\ IsMounted(t.env)})

\* C30 (as claimed): while the blink screen is mounted, isProcessingLiveness
\* is false and no comparison has been started, the detection loop never
\* stops: every tick that finishes, whatever it found, has scheduled exactly
\* one next tick, so the loop always has exactly one tick requested or running.
C30_LoopNeverStops ==
    (screen = "liveness-blink" /\ Quiet /\ liveEff # NoEnv
        /\ ~isProcessingLiveness /\ ~isComparingRef /\ ~sessReached)
        => LoopTicks = 1

\* C31 (as claimed): at identity-back, whenever results are stored whose
\* fields are not all non-empty, retry is offered; and a step that clears the
\* stored results leaves currentStep at identity-back and changes no
\* completion flag.
C31_IncompleteResultsOfferRetry ==
    [][/\ (screen' = "identity-back" /\ currentStep' = "identity-back"
             /\ ocrResults'.present /\ ~AllFieldsRead(ocrResults'))
          => RetryRendered'
       /\ (ocrResults.present /\ ocrResults' = NullOCR)
          => /\ currentStep = "identity-back" /\ currentStep' = "identity-back"
             /\ isGovernmentIDComplete' = isGovernmentIDComplete
             /\ isLivenessComplete' = isLivenessComplete]_vars

\* C32 (as claimed): when the MRZ parser throws, parseOCRText returns
\* normally and the fallbacks still apply: with three candidate lines name
\* and surname are what the third-line heuristic extracts, and tcNo is the
\* first run of 11 digits of the raw text when there is one.
C32_ThrowFallsThrough ==
    (Parsed /\ call.mrzResult.kind = "throws" /\ CandidateCount(call.text) >= 2) =>
        LET found == heuristicFallback(emptyParsedData(call.text), mrzLinesOf(call.text))
        IN  /\ ~ret.threw
            /\ CandidateCount(call.text) >= 3 =>
                  (ret.data.name = found.name /\ ret.data.surname = found.surname)
            /\ HasDigitRun(call.text) => ret.data.tcNo = FirstDigitRun(call.text)

\* the length of the run of uppercase letters of s that starts at position i
UpperRunAt(s, i) ==
    CHOOSE n \in 0..Len(s) :
        /\ \A m \in 1..n : i + m - 1 <= Len(s) /\ s[i + m - 1] \in Upper
        /\ i + n > Len(s) \/ s[i + n] \notin Upper
\* the line is S<<G followed by fillers only, S and G runs of 4 to 15
\* uppercase letters
SurnameLen(line) == UpperRunAt(line, 1)
GivenLen(line) == UpperRunAt(line, SurnameLen(line) + 3)
IsSurnameGiven(line) ==
    /\ SurnameLen(line) >= 4 /\ SurnameLen(line) <= 15
    /\ Len(line) >= SurnameLen(line) + 2
    /\ line[SurnameLen(line) + 1] = "<" /\ line[SurnameLen(line) + 2] = "<"
    /\ GivenLen(line) >= 4 /\ GivenLen(line) <= 15
    /\ \A i \in (SurnameLen(line) + GivenLen(line) + 3)..Len(line) : line[i] = "<"
\* a field is missing: undefined or empty
Missing(v) == v = Undefined \/ v = <<>>

Unfilled(v) == SelectSeq(v, LAMBDA c : c # "<")
\* the parser returned the field and, without its '<', it is exactly 11 digits
Qualifies(v) == v # Null /\ v # <<>> /\ ElevenDigits(Unfilled(v))

\* C34: when the structured parser returns its fields, tcNo is the
\* personal number without '<' if that is exactly 11 digits; otherwise the
\* optional data without '<' if that is exactly 11 digits; otherwise the
\* document number without '<' if that is exactly 11 digits; if none of the
\* three qualifies the structured parse leaves tcNo undefined.
C34_NumberFieldsInOrder ==
    (StructuredRan /\ call.mrzResult.kind = "fields") =>
        LET pn == call.mrzResult.personalNumber
            od == call.mrzResult.optionalData
            dn == call.mrzResult.documentNumber
        IN  /\ Qualifies(pn) => ret.data.tcNo = Unfilled(pn)
            /\ (~Qualifies(pn) /\ Qualifies(od)) => ret.data.tcNo = Unfilled(od)
            /\ (~Qualifies(pn) /\ ~Qualifies(od) /\ Qualifies(dn)) => ret.data.tcNo = Unfilled(dn)
            /\ (~Qualifies(pn) /\ ~Qualifies(od) /\ ~Qualifies(dn)) =>
                  AfterStructured.tcNo = Undefined

\* the personal number has 10 digits, the optional data and the document
\* number 11 each: the optional data is taken
C34_Witness ==
    /\ StructuredRan /\ call.mrzResult.kind = "fields"
    /\ call.mrzResult.personalNumber = TenDigits
    /\ call.mrzResult.optionalData = TcNoB
    /\ call.mrzResult.documentNumber = TcNoC
    /\ ret.data.tcNo = TcNoB

\* the trimmed lines of a text that are longer than 20 characters and made
\* of A-Z, 0-9 and '<' only, in their order
Candidates(text) ==
    LET raw == splitAt(text, LineBreaks)
    IN  SelectSeq([i \in 1..Len(raw) |-> trim(raw[i])],
                  LAMBDA l : Len(l) > 20 /\ AllIn(l, MrzAlphabet))
\* the first three lines of a sequence of lines, or all if there are fewer
FirstThree(lines) == SubSeq(lines, 1, IF Len(lines) > 3 THEN 3 ELSE Len(lines))
\* the text that holds the given lines and nothing else
TextOf(lines) ==
    LET Cat[i \in 0..Len(lines)] ==
            IF i = 0 THEN <<>> ELSE Cat[i - 1] \o lines[i] \o <<"\n">>
    IN  Cat[Len(lines)]

\* C35: the MRZ lines are the first three trimmed lines of the text that are
\* longer than 20 characters and made of A-Z, 0-9 and '<' only, in their order
\* (or all of them if there are fewer); name and surname are the ones returned
\* for the text that holds these lines alone: no other line, and no such line
\* after the third, has an influence on them.
C35_OnlyFirstThreeCandidates ==
    Parsed =>
        LET first == FirstThree(Candidates(call.text))
            used == mrzLinesOf(call.text)
            alone == parseOCRText(TextOf(first), call.mrzResult).data
        IN  /\ Len(used) = Len(first)
            /\ \A i \in 1..Len(first) :
                  used[i] = SubSeq(first[i], 1, IF Len(first[i]) > 30 THEN 30 ELSE Len(first[i]))
                            \o [k \in 1..(30 - Len(first[i])) |-> "<"]
            /\ ret.data.name = alone.name
            /\ ret.data.surname = alone.surname

\* a text with a line that is no candidate and four candidate lines, the
\* fourth one VELI<<MERT: the names are those of the third
C35_Witness ==
    /\ Parsed /\ call.mrzResult.kind = "nofields"
    /\ Len(Candidates(call.text)) = 4
    /\ Len(splitAt(call.text, LineBreaks)) > 4
    /\ SubSeq(Candidates(call.text)[4], 1, 4) = VELI
    /\ ret.data.surname = KAYA /\ ret.data.name = ALIX

\* the split of the stripped line after n letters validates: the line is
\* longer than n + 4, its first n characters are uppercase letters and at
\* least 4 uppercase letters follow them
Validates(clean, n) ==
    /\ Len(clean) > n + 4
    /\ \A i \in 1..n : clean[i] \in Upper
    /\ UpperRunAt(clean, n + 1) >= 4
\* tiers (a) and (b) leave the third line unresolved and tier (c) resolves it
SlidingResolves(line3) ==
    LET clean == trim(StripFillers(line3))
        pieces == splitFillerRuns(line3)
        parts == SelectSeq([i \in 1..Len(pieces) |-> trim(pieces[i])], LAMBDA q : Len(q) > 0)
        runs == matchUpperRuns(clean)
    IN  /\ Len(parts) < 2 /\ Len(clean) > 0
        /\ ~(/\ Len(runs) >= 2
             /\ Len(runs[1]) >= 4 /\ Len(runs[1]) <= 15
             /\ Len(runs[2]) >= 4 /\ Len(runs[2]) <= 15)
        /\ \E n \in 4..15 : Validates(clean, n)

\* C36: a split of the stripped third line that validates at some surname
\* length from 4 to 15 validates at length 4; whenever the sliding-window
\* tier resolves the line, a surname that was missing is the first 4 letters
\* of the stripped line and a name that was missing is the run of up to 15
\* letters that follows them.
C36_SlidingWindowStopsAtFour ==
    (StructuredRan /\ CandidateCount(call.text) >= 3) =>
        LET line3 == mrzLinesOf(call.text)[3]
            clean == trim(StripFillers(line3))
            run == UpperRunAt(clean, 5)
        IN  /\ \A n \in 4..15 : Validates(clean, n) => Validates(clean, 4)
            /\ (SlidingResolves(line3) /\ Missing(AfterStructured.surname)) =>
                  ret.data.surname = SubSeq(clean, 1, 4)
            /\ (SlidingResolves(line3) /\ Missing(AfterStructured.name)) =>
                  ret.data.name = SubSeq(clean, 5, 4 + (IF run > 15 THEN 15 ELSE run))

\* the third line is KAYAXALIXY and fillers: the surname is KAYA and the
\* name XALIXY, although the split after five letters validates as well
C36_Witness ==
    /\ StructuredRan /\ CandidateCount(call.text) >= 3
    /\ SlidingResolves(mrzLinesOf(call.text)[3])
    /\ Validates(trim(StripFillers(mrzLinesOf(call.text)[3])), 5)
    /\ Missing(AfterStructured.name) /\ Missing(AfterStructured.surname)
    /\ ret.data.surname = KAYA
    /\ ret.data.name = <<"X">> \o ALIX \o <<"Y">>

\* s is a prefix of t
IsPrefix(s, t) == Len(s) <= Len(t) /\ \A i \in 1..Len(s) : s[i] = t[i]
\* every run of 11 digits of s occurs in t
RunsOccurIn(s, t) ==
    \A i \in 1..(Len(s) - 10) :
        (\A k \in 0..10 : s[i + k] \in Digit) =>
            \E j \in 1..(Len(t) - 10) : \A k \in 0..10 : t[j + k] = s[i + k]
\* what parseOCRText returns when line 1 is not searched: the steps of the
\* parser, the national ID number taken from the raw text only
WithoutLineSearch ==
    LET empty == emptyParsedData(call.text)
        lines == mrzLinesOf(call.text)
        data == heuristicFallback(structuredParse(empty, call.mrzResult), lines)
    IN  IF Len(lines) < 2 THEN empty
        ELSE IF call.mrzResult.kind = "throws" THEN onParseError(empty, call.text).data
        ELSE IF Truthy(data.tcNo) \/ ~HasDigitRun(call.text) THEN data
        ELSE [data EXCEPT !.tcNo = FirstDigitRun(call.text)]

\* C37 (as claimed): normalized line 1 is a prefix of a trimmed line of the
\* raw text; every run of 11 digits in it occurs in the raw text; and
\* parseOCRText returns what it would return without the search of line 1.
C37_LineOneIsPrefix ==
    (Parsed /\ CandidateCount(call.text) >= 1) =>
        LET line1 == mrzLinesOf(call.text)[1]
            raw == splitAt(call.text, LineBreaks)
        IN  /\ \E i \in 1..Len(raw) : IsPrefix(line1, trim(raw[i]))
            /\ RunsOccurIn(line1, call.text)
            /\ ret.data = WithoutLineSearch

\* C37 (amended): normalized line 1 is the first candidate line cut after 30
\* characters, or that line followed by '<' up to 30 characters; every run of
\* 11 digits in it occurs in the raw text; and parseOCRText returns what it
\* would return without the search of line 1.
C37_LineSearchRedundant ==
    Parsed =>
        /\ CandidateCount(call.text) >= 1 =>
              LET line1 == mrzLinesOf(call.text)[1]
                  first == Candidates(call.text)[1]
              IN  /\ IF Len(first) >= 30 THEN line1 = SubSeq(first, 1, 30)
                     ELSE line1 = first \o [k \in 1..(30 - Len(first)) |-> "<"]
                  /\ RunsOccurIn(line1, call.text)
        /\ ret.data = WithoutLineSearch

\* line 1 was searched: two candidate lines, no number from the parser and
\* no run of 11 digits in the raw text; line 1 is a line of 21 characters
\* followed by fillers and tcNo stays undefined
C37_Witness ==
    /\ StructuredRan /\ AfterStructured.tcNo = Undefined
    /\ ~HasDigitRun(call.text)
    /\ Len(Candidates(call.text)[1]) = 21
    /\ mrzLinesOf(call.text)[1][30] = "<"
    /\ ret.data.tcNo = Undefined

\* C38: the blink counter and the displayed count stay between 0 and
\* REQUIRED_BLINKS; both are 0 when the blink screen has just been mounted;
\* a step that increases one of them increases it by exactly 1, and only from
\* a value below REQUIRED_BLINKS.
C38_CountWithinBounds ==
    [][/\ blinkCountRef' \in 0..REQUIRED_BLINKS /\ blinkCount' \in 0..REQUIRED_BLINKS
       /\ (screen' = "liveness-blink" /\ screen # "liveness-blink") =>
              (blinkCountRef' = 0 /\ blinkCount' = 0)
       /\ blinkCountRef' > blinkCountRef =>
              (blinkCountRef' = blinkCountRef + 1 /\ blinkCountRef < REQUIRED_BLINKS)
       /\ blinkCount' > blinkCount =>
              (blinkCount' = blinkCount + 1 /\ blinkCount < REQUIRED_BLINKS)]_vars

\* the second blink has just been counted: the count went from 1 to
\* REQUIRED_BLINKS and the comparison block has been entered
C38_Witness ==
    /\ screen = "liveness-blink"
    /\ blinkCountRef = REQUIRED_BLINKS /\ blinkCount = REQUIRED_BLINKS
    /\ sessReached /\ isComparingRef

\* C39: whenever currentStep is liveness-blink, livenessSelfie is non-null;
\* currentStep becomes liveness-blink only in the step in which a selfie
\* capture settles and stores a new selfie, and isProcessingLiveness is false
\* after that step; hence a comparison block that fails for a missing image
\* was handed a selfie and no portrait, and the store holds a selfie and no
\* portrait in that step.
C39_BlinkStepHasSelfie ==
    [][/\ currentStep' = "liveness-blink" => livenessSelfie' # NullImg
       /\ (currentStep' = "liveness-blink" /\ currentStep # "liveness-blink") =>
              /\ SelfieSettles
              /\ livenessSelfie' # livenessSelfie
              /\ ~isProcessingLiveness'
       /\ (screen' = "liveness-blink" /\ screen # "liveness-blink") =>
              ~isProcessingLiveness'
       /\ (InGate /\ lastMessage' = MsgMissing) =>
              /\ \A t \in tasks : t.pc = "gate" =>
                     (t.env.selfie # NullImg /\ t.env.portrait = NullImg)
              /\ livenessSelfie # NullImg /\ croppedPortrait = NullImg]_vars

\* liveness was started before any ID photo: the selfie is stored, the blink
\* screen is shown and its comparison block has just failed for a missing
\* image while only the portrait was absent
C39_Witness ==
    /\ lastMessage = MsgMissing /\ sessReset
    /\ livenessSelfie # NullImg /\ croppedPortrait = NullImg
    /\ ~isGovernmentIDComplete /\ identityPhoto = 0
    /\ currentStep = "liveness-front"

====
